---- MODULE Spec2Model ----
(***************************************************************************)
(* Locked-In: the mixed-process dwell timer (MixedProcessMonitor) and the  *)
(* monitoring loop that drives it (MainPage.check_current_process).        *)
(*                                                                         *)
(* Two specifications share the variables:                                 *)
(*   SpecMonitor  a MixedProcessMonitor under arbitrary call sequences;    *)
(*   Spec         the monitoring session of MainPage: the poll timer, the  *)
(*                user changing the foreground window, start and stop.     *)
(* Time is the wall clock in whole seconds (time.time()).                  *)
(***************************************************************************)
EXTENDS Integers, Sequences, FiniteSets, TLC

VARIABLES
    mixed_process_monitor,   \* the MixedProcessMonitor instance: its three fields
    now,                     \* time.time(), in seconds
    call,                    \* the last call made on the monitor and what it returned
    cleared_by,              \* history: the process whose work/entertainment update last cleared tracking
    tracked_since_reset,     \* history: time of the first mixed/unknown update_process since the last reset
    reset_after_expiry,      \* history: reset() has been called on an expired timer
    observed_at,             \* history: when the process now under observation was first seen as mixed/unknown
    is_monitoring,           \* MainPage.is_monitoring
    next_poll,               \* when monitoring_timer is next due
    previous_process_name,   \* MainPage.previous_process_name
    previous_classification, \* MainPage.previous_classification
    last_analyzed_key,       \* MainPage.last_analyzed_key
    last_analysis_result,    \* MainPage.last_analysis_result
    current_popup,           \* MainPage.current_popup: None, "visible" or "closed"
    session_distraction_count, \* MainPage.session_distraction_count
    session_popup_count,     \* MainPage.session_popup_count
    foreground,              \* the desktop: the foreground window's process and title
    cache,                   \* DistractionCache._cache of the current profile
    tick,                    \* what the last run of check_current_process in this session did
    dwell,                   \* history: the run of consecutive polls that saw the same process
    settled_key,             \* history: the key given a not-distracted verdict in this session and in the foreground ever since
    server_models,           \* the Ollama server: the model names GET /api/tags lists, in order
    server_up,               \* the Ollama server answers GET /api/tags with status 200
    tags_cache,              \* OllamaClient._tags_cache
    model_cache,             \* OllamaClient._model_cache
    read_at,                 \* history: when the server was read for each entry's is_available
    lookup,                  \* the last check_model_available / _resolve_model_name call
    gen,                     \* the generate_* call in progress or just ended: its locals and outcome
    cancelled,               \* what check_cancelled() returns when called now
    analysis,                \* the analyze_screenshots call in progress or just ended
    cache_file,              \* DistractionCache.cache_file: what the file holds
    cache_call,              \* the last call on the DistractionCache instance
    probe,                   \* a call of a pure function: its arguments and its result
    profiles,                \* the DistractionCache instances of get_cache, the cache files by name, and the last call
    clients,                 \* OllamaClient instances for several base URLs: their servers, the class-level caches, the last call
    session                  \* MainPage's toggle switch, its two timers, the profile, and the session records saved

vars == <<mixed_process_monitor, now, call, cleared_by, tracked_since_reset, reset_after_expiry,
          observed_at, is_monitoring, next_poll, previous_process_name, previous_classification,
          last_analyzed_key, last_analysis_result, current_popup,
          session_distraction_count, session_popup_count, foreground,
          cache, tick, dwell, settled_key,
          server_models, server_up, tags_cache, model_cache, read_at, lookup,
          gen, cancelled, analysis, cache_file, cache_call, probe, profiles, clients, session>>

\* the variables of the monitor and of MainPage's loop
monitorLoopVars ==
    <<mixed_process_monitor, call, cleared_by, tracked_since_reset, reset_after_expiry,
      observed_at, is_monitoring, next_poll, previous_process_name,
      previous_classification, last_analyzed_key, last_analysis_result, current_popup,
      session_distraction_count, session_popup_count, foreground, cache, tick, dwell,
      settled_key>>

\* OllamaClient's class-level caches and the server they mirror
clientVars == <<server_models, server_up, tags_cache, model_cache, read_at, lookup>>

\* what neither the monitor nor the loop touches
\* a generate_* call of OllamaClient and the caller's cancellation flag
genVars == <<gen, cancelled>>

\* the file of the DistractionCache instance and the last call on it
fileVars == <<cache_file, cache_call>>

restVars == <<clientVars, genVars, analysis, fileVars, probe, profiles, clients, session>>

\* what the calls on OllamaClient's model caches leave alone
exceptClient == <<monitorLoopVars, genVars, analysis, fileVars, probe, profiles, clients, session>>

\* what a generate_* call leaves alone
exceptGenerate == <<now, monitorLoopVars, clientVars, analysis, fileVars, probe, profiles, clients, session>>

\* what an analyze_screenshots call leaves alone
exceptAnalyzer == <<now, monitorLoopVars, clientVars, genVars, fileVars, probe, profiles, clients, session>>

\* what a call of a pure function leaves alone
exceptProbe == <<now, monitorLoopVars, clientVars, genVars, analysis, fileVars, profiles, clients, session>>

\* what a call on a DistractionCache leaves alone (cache is its _cache)
exceptCache ==
    <<now, mixed_process_monitor, call, cleared_by, tracked_since_reset,
      reset_after_expiry, observed_at, is_monitoring, next_poll,
      previous_process_name, previous_classification, last_analyzed_key,
      last_analysis_result, current_popup, session_distraction_count,
      session_popup_count, foreground, tick, dwell, settled_key,
      clientVars, genVars, analysis, probe, profiles, clients, session>>

callVars == <<call, cleared_by, tracked_since_reset, reset_after_expiry, observed_at>>

loopVars == <<is_monitoring, next_poll, previous_process_name, previous_classification,
              last_analyzed_key, last_analysis_result, current_popup,
              session_distraction_count, session_popup_count, foreground,
              cache, tick, dwell, settled_key>>

----------------------------------------------------------------------------
(* Bounds of the model *)

\* the clock stops advancing here
MaxTime == 6

\* the longest a screenshot plus a two-stage analysis blocks the poll handler
MaxAnalysisTime == 2

----------------------------------------------------------------------------
(* Values *)

\* Python's None, for names, keys and results
None == "None"

\* Python's None for last_analyzed_key (a key is a pair)
NoKey == <<>>

\* Python's True and False as values of last_analysis_result (which may be None)
PyTrue == "True"
PyFalse == "False"

\* Python's None for timer_start_time (times are >= 0)
NoTime == -1

\* monitor_timeout of the classification config: MixedProcessMonitor.timeout_seconds
timeout_seconds == 2

\* monitoring_timer.start(2000)
PollInterval == 2

Classifications == {"work", "entertainment", "mixed", "unknown"}

\* the process names seen by the monitor and the loop (lowercased by
\* get_foreground_process_name)
Procs == {"code.exe", "game.exe", "chrome.exe", "foo.exe", "youtube.exe"}

----------------------------------------------------------------------------
(* Strings: a Python str is written as a TLA+ string; its characters, which  *)
(* lower(), strip(), replace() and the in operator work on, are chars(s).    *)

\* the characters of the strings that occur
chars(s) ==
    CASE s = "code.exe" -> <<"c", "o", "d", "e", ".", "e", "x", "e">>
      [] s = "game.exe" -> <<"g", "a", "m", "e", ".", "e", "x", "e">>
      [] s = "chrome.exe" -> <<"c", "h", "r", "o", "m", "e", ".", "e", "x", "e">>
      [] s = "foo.exe" -> <<"f", "o", "o", ".", "e", "x", "e">>
      [] s = "youtube.exe" -> <<"y", "o", "u", "t", "u", "b", "e", ".", "e", "x", "e">>
      [] s = "youtube" -> <<"y", "o", "u", "t", "u", "b", "e">>
      [] s = "docs" -> <<"d", "o", "c", "s">>
      [] s = "video" -> <<"v", "i", "d", "e", "o">>
      [] s = "ministral-3" -> <<"m", "i", "n", "i", "s", "t", "r", "a", "l", "-", "3">>
      [] s = "ministral-3:8b" ->
             <<"m", "i", "n", "i", "s", "t", "r", "a", "l", "-", "3", ":", "8", "b">>
      [] s = "ministral-3:3b" ->
             <<"m", "i", "n", "i", "s", "t", "r", "a", "l", "-", "3", ":", "3", "b">>
      [] s = "Chrome.EXE" -> <<"C", "h", "r", "o", "m", "e", ".", "E", "X", "E">>
      [] s = " chrome.exe " ->
             <<" ", "c", "h", "r", "o", "m", "e", ".", "e", "x", "e", " ">>
      [] s = " Video" -> <<" ", "V", "i", "d", "e", "o">>
      [] s = "win.exe.bak" -> <<"w", "i", "n", ".", "e", "x", "e", ".", "b", "a", "k">>
      [] s = "win.bak" -> <<"w", "i", "n", ".", "b", "a", "k">>
      [] s = "my profile" -> <<"m", "y", " ", "p", "r", "o", "f", "i", "l", "e">>
      [] s = "my_profile" -> <<"m", "y", "_", "p", "r", "o", "f", "i", "l", "e">>
      [] s = "default" -> <<"d", "e", "f", "a", "u", "l", "t">>
      [] s = "" -> <<>>

UpperCase == <<"A", "B", "C", "D", "E", "F", "G", "H", "I", "J", "K", "L", "M",
               "N", "O", "P", "Q", "R", "S", "T", "U", "V", "W", "X", "Y", "Z">>
LowerCase == <<"a", "b", "c", "d", "e", "f", "g", "h", "i", "j", "k", "l", "m",
               "n", "o", "p", "q", "r", "s", "t", "u", "v", "w", "x", "y", "z">>

\* str.lower(), on characters
lower(cs) ==
    [i \in 1..Len(cs) |->
        IF \E k \in 1..Len(UpperCase) : UpperCase[k] = cs[i]
        THEN LowerCase[CHOOSE k \in 1..Len(UpperCase) : UpperCase[k] = cs[i]]
        ELSE cs[i]]

\* a in b for two strings: a occurs in b as a substring
contains(b, a) ==
    /\ Len(a) <= Len(b)
    /\ \E i \in 0..(Len(b) - Len(a)) : SubSeq(b, i + 1, i + Len(a)) = a

\* str.replace('.exe', ''): every occurrence removed, left to right
RECURSIVE remove_exe(_)
remove_exe(cs) ==
    IF Len(cs) < 4
    THEN cs
    ELSE IF SubSeq(cs, 1, 4) = <<".", "e", "x", "e">>
         THEN remove_exe(SubSeq(cs, 5, Len(cs)))
         ELSE <<Head(cs)>> \o remove_exe(Tail(cs))

Whitespace == {" ", "\t", "\n", "\r"}

Digits == {"0", "1", "2", "3", "4", "5", "6", "7", "8", "9"}

\* str.isalnum() for one character
isalnum(c) ==
    \/ c \in Digits
    \/ \E k \in 1..Len(UpperCase) : UpperCase[k] = c \/ LowerCase[k] = c

\* str.strip(): leading and trailing whitespace removed
RECURSIVE lstrip(_)
lstrip(cs) ==
    IF Len(cs) > 0 /\ Head(cs) \in Whitespace THEN lstrip(Tail(cs)) ELSE cs

RECURSIVE rstrip(_)
rstrip(cs) ==
    IF Len(cs) > 0 /\ cs[Len(cs)] \in Whitespace
    THEN rstrip(SubSeq(cs, 1, Len(cs) - 1))
    ELSE cs

strip(cs) == rstrip(lstrip(cs))

\* "not s" for a str or None
falsy(s) == s = None \/ s = ""

\* name.startswith(prefix), on characters
startswith(name, prefix) ==
    /\ Len(prefix) <= Len(name)
    /\ SubSeq(name, 1, Len(prefix)) = prefix

----------------------------------------------------------------------------
(* The profile and the classification config *)

\* profile_data["blacklist"]: what the user typed
blacklist == <<"youtube">>

\* config.get_process_classification(): the profile's table; the user who
\* blacklisted "youtube" also has youtube.exe among the work processes
process_classification ==
    [work_processes          |-> <<"code.exe", "youtube.exe">>,
     entertainment_processes |-> <<"game.exe">>,
     mixed_processes         |-> <<"chrome.exe">>]

\* process_monitor.is_in_blacklist(process_name, blacklist)
is_in_blacklist(process_name, bl) ==
    IF falsy(process_name) \/ Len(bl) = 0
    THEN FALSE
    ELSE LET process_lower == lower(chars(process_name))
         IN  \E k \in 1..Len(bl) :
                 LET blacklist_lower == lower(chars(bl[k]))
                     process_base    == remove_exe(process_lower)
                     blacklist_base  == remove_exe(blacklist_lower)
                 IN  \/ process_base = blacklist_base
                     \/ contains(process_base, blacklist_base)
                     \/ contains(blacklist_base, process_base)

\* process_monitor.is_in_whitelist(process_name, whitelist)
is_in_whitelist(process_name, wl) ==
    IF falsy(process_name) \/ Len(wl) = 0
    THEN FALSE
    ELSE LET process_lower == lower(chars(process_name))
         IN  \E k \in 1..Len(wl) :
                 LET whitelist_lower == lower(chars(wl[k]))
                     process_base    == remove_exe(process_lower)
                     whitelist_base  == remove_exe(whitelist_lower)
                 IN  \/ process_base = whitelist_base
                     \/ contains(process_base, whitelist_base)
                     \/ contains(whitelist_base, process_base)

\* entertainment_processes looked at before work_processes
classify_process_entertainment_first(process_name, config) ==
    IF falsy(process_name)
    THEN "unknown"
    ELSE LET process_lower == lower(chars(process_name))
             listed(l) == \E k \in 1..Len(l) : lower(chars(l[k])) = process_lower
         IN  IF listed(config.entertainment_processes) THEN "entertainment"
             ELSE IF listed(config.work_processes) THEN "work"
             ELSE IF listed(config.mixed_processes) THEN "mixed"
             ELSE "unknown"

\* process_classifier.classify_process(process_name, config)
classify_process(process_name, config) ==
    IF falsy(process_name)
    THEN "unknown"
    ELSE LET process_lower == lower(chars(process_name))
             listed(l) == \E k \in 1..Len(l) : lower(chars(l[k])) = process_lower
         IN  IF listed(config.work_processes) THEN "work"
             ELSE IF listed(config.entertainment_processes) THEN "entertainment"
             ELSE IF listed(config.mixed_processes) THEN "mixed"
             ELSE "unknown"

----------------------------------------------------------------------------
(* OllamaClient: scripts/vlm/ollama_client.py, the model caches              *)

\* OllamaClient._cache_ttl, in seconds
cache_ttl == 30

\* self.base_url
base_url == "http://localhost:11434"

\* the model names callers ask for: the configured one and what it resolves to
ModelNames == {"ministral-3", "ministral-3:8b"}

\* what GET /api/tags can list: nothing pulled yet, two sizes of the model, or
\* the model under its short name too
ServerLists ==
    {<<>>,
     <<"ministral-3:3b", "ministral-3:8b">>,
     <<"ministral-3:8b", "ministral-3">>}

\* cache_key = f"{self.base_url}:{model_name}"
cache_key(model_name) == <<base_url, model_name>>

CacheKeys == {cache_key(n) : n \in ModelNames}

\* _tags_cache is None
NoTags == [models_data |-> <<>>, cache_time |-> NoTime]

\* cache_key not in _model_cache
NoEntry == [is_available |-> FALSE, resolved_name |-> None, cache_time |-> NoTime]

\* model_name in model_names
in_list(model_name, model_names) ==
    \E k \in 1..Len(model_names) : model_names[k] = model_name

\* any(name.startswith(model_name) for name in model_names)
any_startswith(model_name, model_names) ==
    \E k \in 1..Len(model_names) :
        startswith(chars(model_names[k]), chars(model_name))

\* the _tags_cache entry is there and younger than the TTL at time t
tags_fresh(tags, t) ==
    tags # NoTags /\ t - tags.cache_time < cache_ttl

\* OllamaClient._get_models_list at time t: the names it returns and the
\* _tags_cache it leaves; server is what GET /api/tags would answer
get_models_list(tags, server, t) ==
    IF tags_fresh(tags, t)
    THEN [model_names |-> tags.models_data, tags_cache |-> tags]
    ELSE IF server.up
         THEN [model_names |-> server.models,
               tags_cache  |-> [models_data |-> server.models, cache_time |-> t]]
         ELSE \* the request fails or is not a 200: logged, "return []"
              [model_names |-> <<>>, tags_cache |-> tags]

\* the _model_cache entry of model_name is there and younger than the TTL
entry_fresh(c, model_name, t) ==
    LET entry == c.model_cache[cache_key(model_name)]
    IN  entry # NoEntry /\ t - entry.cache_time < cache_ttl

\* OllamaClient.check_model_available(model_name) at time t, on the caches c:
\* what it returns and the caches it leaves
check_model_available(c, server, model_name, t) ==
    LET entry == c.model_cache[cache_key(model_name)]
    IN  IF entry_fresh(c, model_name, t)
        THEN [returned |-> entry.is_available, client |-> c]
        ELSE LET got == get_models_list(c.tags_cache, server, t)
                 is_available ==
                     IF in_list(model_name, got.model_names)
                     THEN TRUE
                     ELSE any_startswith(model_name, got.model_names)
             IN  [returned |-> is_available,
                  client |->
                      [tags_cache  |-> got.tags_cache,
                       model_cache |->
                           [c.model_cache EXCEPT ![cache_key(model_name)] =
                               [is_available  |-> is_available,
                                resolved_name |-> model_name,
                                cache_time    |-> t]]]]

\* "for name in model_names: if name.startswith(model_name): resolved = name; break"
first_startswith(model_name, model_names) ==
    IF any_startswith(model_name, model_names)
    THEN model_names[CHOOSE k \in 1..Len(model_names) :
            /\ startswith(chars(model_names[k]), chars(model_name))
            /\ \A j \in 1..(k - 1) :
                   ~startswith(chars(model_names[j]), chars(model_name))]
    ELSE model_name

\* OllamaClient._resolve_model_name(model_name) at time t
resolve_model_name(c, server, model_name, t) ==
    LET entry == c.model_cache[cache_key(model_name)]
    IN  IF entry_fresh(c, model_name, t) /\ ~falsy(entry.resolved_name)
        THEN [returned |-> entry.resolved_name, client |-> c]
        ELSE LET got == get_models_list(c.tags_cache, server, t)
                 resolved ==
                     IF in_list(model_name, got.model_names)
                     THEN model_name
                     ELSE first_startswith(model_name, got.model_names)
                 is_available ==
                     IF entry # NoEntry
                     THEN \* "reuse availability check if available"
                          entry.is_available
                     ELSE \/ in_list(resolved, got.model_names)
                          \/ any_startswith(model_name, got.model_names)
             IN  [returned |-> resolved,
                  client |->
                      [tags_cache  |-> got.tags_cache,
                       model_cache |->
                           [c.model_cache EXCEPT ![cache_key(model_name)] =
                               [is_available  |-> is_available,
                                resolved_name |-> resolved,
                                cache_time    |-> t]]]]

\* no call made yet
NoLookup ==
    [op |-> "none", model_name |-> None, returned |-> None, from_cache |-> FALSE,
     fetched |-> FALSE]

\* the class attributes as defined: both caches empty
ClientIdle ==
    /\ server_up = TRUE
    /\ tags_cache = NoTags
    /\ model_cache = [k \in CacheKeys |-> NoEntry]
    /\ read_at = [k \in CacheKeys |-> NoTime]
    /\ lookup = NoLookup

----------------------------------------------------------------------------
(* OllamaClient: generate_text, generate_vision, generate_vision_multi       *)
(*                                                                         *)
(* The model is resolved and available and the images encode, so a call    *)
(* gets as far as its POST to /api/generate. A response text is the        *)
(* sequence of the tokens it is made of; the empty text is <<>>.           *)

Methods == {"generate_text", "generate_vision", "generate_vision_multi"}

\* a key that a JSON object does not have
Absent == -1

\* the lines response.iter_lines() can yield: a chunk with a token under
\* "response", one with it under "thinking", the final chunk with the
\* evaluation count, a keep-alive (empty line) and a line that is not JSON
Lines ==
    {[kind |-> "json", response |-> "a", thinking |-> "", done |-> FALSE,
      eval_count |-> Absent],
     [kind |-> "json", response |-> "", thinking |-> "t", done |-> FALSE,
      eval_count |-> Absent],
     [kind |-> "json", response |-> "", thinking |-> "", done |-> TRUE,
      eval_count |-> 2],
     [kind |-> "empty", response |-> "", thinking |-> "", done |-> FALSE,
      eval_count |-> Absent],
     [kind |-> "garbage", response |-> "", thinking |-> "", done |-> FALSE,
      eval_count |-> Absent]}

\* response.json() of a non-streamed answer: the text and the evaluation count
Answers ==
    {[response |-> r, eval_count |-> n] : r \in {<<>>, <<"a">>}, n \in {Absent, 0, 2}}

\* data.get('eval_count', 0)
get_eval_count(n) == IF n = Absent THEN 0 ELSE n

\* the token a streamed chunk contributes: generate_vision and
\* generate_vision_multi take "response" or else "thinking" (or "content",
\* "text"); generate_text takes "response" only
token(method, line) ==
    IF method = "generate_text"
    THEN line.response
    ELSE IF line.response # "" THEN line.response ELSE line.thinking

\* the streaming loop of the method evaluates check_cancelled
checks_cancelled(method) ==
    method \in {"generate_vision", "generate_vision_multi"}

\* no call: the locals of a call before it starts
NoGen ==
    [pc |-> "idle", method |-> None, stream |-> FALSE, check_cancelled |-> FALSE,
     pending |-> <<>>, full_response |-> <<>>, eval_count |-> Absent,
     parsed |-> FALSE, closed |-> FALSE, posts |-> 0,
     received |-> 0, evaluated |-> 0, told |-> FALSE,
     first |-> [response |-> <<>>, eval_count |-> Absent], retried |-> <<>>,
     text |-> <<>>, error |-> None]

\* the call returns {'text': response_text, ...}
returns(g, response_text) ==
    [g EXCEPT !.pc = "returned", !.text = response_text, !.pending = <<>>]

\* the call raises
raises(g, error) ==
    [g EXCEPT !.pc = "raised", !.error = error, !.pending = <<>>]

\* one pass of "for line in response.iter_lines():" in a streamed call g, on
\* the next line, with check_cancelled() answering flag
stream_line(g, flag) ==
    LET line == Head(g.pending)
        g1 == [g EXCEPT !.pending = Tail(g.pending),
                        !.received = @ + 1]
        \* "if check_cancelled and check_cancelled():"
        asks == checks_cancelled(g.method) /\ g.check_cancelled
        g2 == IF asks
              THEN [g1 EXCEPT !.evaluated = @ + 1, !.told = flag]
              ELSE g1
        tok == token(g.method, line)
        g3 == IF line.kind = "json"
              THEN [g2 EXCEPT !.full_response =
                                 IF tok # "" THEN Append(@, tok) ELSE @,
                              !.eval_count =
                                 IF line.eval_count # Absent
                                 THEN line.eval_count ELSE @,
                              !.parsed = TRUE]
              ELSE \* an empty line, or json.JSONDecodeError: continue
                   g2
    IN  IF asks /\ flag
        THEN \* response.close(); raise InterruptedError(...)
             raises([g2 EXCEPT !.closed = TRUE], "InterruptedError")
        ELSE IF g.method = "generate_text" /\ line.kind = "json" /\ line.done
             THEN \* "if data.get('done', False): break"
                  returns(g3, g3.full_response)
             ELSE g3

\* the stream has ended: what follows the loop of a streamed call g
stream_ends(g) ==
    IF g.method = "generate_text" /\ ~g.parsed
    THEN \* the return statement reads data, which no line has bound
         raises(g, "UnboundLocalError")
    ELSE returns(g, g.full_response)

\* the retry's loop over stream_response.iter_lines(): the tokens under
\* "response" up to the first chunk that is done
RECURSIVE retry_text(_)
retry_text(lines) ==
    IF lines = <<>>
    THEN <<>>
    ELSE LET line == Head(lines)
         IN  IF line.kind # "json"
             THEN retry_text(Tail(lines))
             ELSE (IF line.response # "" THEN <<line.response>> ELSE <<>>)
                  \o (IF line.done THEN <<>> ELSE retry_text(Tail(lines)))

\* "if not response_text and final_data.get('eval_count', 0) > 0 and not
\* stream:", which generate_text does not have
retries(method, answer, stream) ==
    /\ method \in {"generate_vision", "generate_vision_multi"}
    /\ answer.response = <<>>
    /\ get_eval_count(answer.eval_count) > 0
    /\ ~stream

\* a call that is not streamed, from its POST to its return: answer is
\* response.json(); retry is the status and the lines of the second POST,
\* should there be one
not_streamed(g, answer, retry) ==
    LET g1 == [g EXCEPT !.first = answer,
                        !.eval_count = answer.eval_count,
                        !.parsed = TRUE]
    IN  IF retries(g.method, answer, g.stream)
        THEN LET g2 == [g1 EXCEPT !.posts = @ + 1,
                                  !.retried = IF retry.status = 200
                                              THEN retry.lines ELSE <<>>]
                 full_response == retry_text(retry.lines)
             IN  IF retry.status = 200 /\ full_response # <<>>
                 THEN returns(g2, full_response)
                 ELSE returns(g2, answer.response)
        ELSE returns(g1, answer.response)

\* no generate call yet; the user has not moved on
GenIdle ==
    /\ gen = NoGen
    /\ cancelled = FALSE

----------------------------------------------------------------------------
(* OllamaClient: the images of generate_vision_multi                         *)

\* the image files on disk: two sound ones, one cut short while written, and
\* one whose header declares more pixels than Image.open accepts
ImageFiles == {"ok1.jpg", "ok2.jpg", "cut.jpg", "huge.png"}

\* what PIL makes of a file: Image.open / load / convert go through, raise
\* OSError (truncated or unreadable), or raise an exception that is no
\* OSError (Image.DecompressionBombError)
image_load(path) ==
    CASE path \in {"ok1.jpg", "ok2.jpg"} -> None
      [] path = "cut.jpg" -> "OSError"
      [] path = "huge.png" -> "DecompressionBombError"

\* OllamaClient._encode_image_base64: the base64 text of the JPEG bytes, or
\* the exception raised: an OSError is raised again as OSError, any other
\* exception is logged and raised as it is
encode_image_base64(path) ==
    IF image_load(path) = None
    THEN [raises |-> None, base64 |-> <<"base64", path>>]
    ELSE [raises |-> image_load(path), base64 |-> <<>>]

\* the loop over image_paths: OSError (IOError is the same class) skips the
\* image, any other exception leaves the loop and the call
RECURSIVE encode_images(_, _)
encode_images(image_paths, image_base64_list) ==
    IF image_paths = <<>>
    THEN [raises |-> None, image_base64_list |-> image_base64_list]
    ELSE LET encoded == encode_image_base64(Head(image_paths))
         IN  IF encoded.raises = None
             THEN encode_images(Tail(image_paths),
                                Append(image_base64_list, encoded.base64))
             ELSE IF encoded.raises = "OSError"
             THEN encode_images(Tail(image_paths), image_base64_list)
             ELSE [raises |-> encoded.raises, image_base64_list |-> image_base64_list]

\* generate_vision_multi from its image loop to requests.post, for a model
\* that is available: pc "posted" with the payload's images, or "raised"
vision_multi_images(pr) ==
    LET encoded == encode_images(pr.list, <<>>)
    IN  IF encoded.raises # None
        THEN [pr EXCEPT !.pc = "raised", !.error = encoded.raises]
        ELSE IF encoded.image_base64_list = <<>>
        THEN [pr EXCEPT !.pc = "raised", !.error = "ValueError"]
        ELSE [pr EXCEPT !.pc = "posted", !.images = encoded.image_base64_list]

----------------------------------------------------------------------------
(* The analyzer: scripts/vlm/ministral_analyzer.py. A response of the model  *)
(* is written as what the analyzer's parsing makes of its text.              *)

\* a JSON text that does not parse, or a search that finds nothing
NoJSON == [type |-> "none", truthy |-> FALSE, distract |-> "absent", confid |-> "absent"]

\* json.loads of an object: whether it has members, bool(value) of its
\* member whose key holds "distract", and of its member whose key holds
\* "confid" the int(value) of a number ("90") or None for any other value;
\* "absent" when it has no such member
Dict(truthy, distract, confid) ==
    [type |-> "dict", truthy |-> truthy, distract |-> distract, confid |-> confid]

\* json.loads of a text that is a scalar: true, false, null
Scalar(truthy) ==
    [type |-> "scalar", truthy |-> truthy, distract |-> "absent", confid |-> "absent"]

\* what generate_vision can answer in Stage 1, for one screenshot:
\*   ok          {"desc_image1": "a code editor"}
\*   fenced      ```json {"desc_image1": "a code editor"} ```
\*   empty       the empty text
\*   prose       I see a code editor.
\*   otherkey    {"desc_image2": "a code editor"}
\*   broken      {"desc_image1": "a code editor", }
\*   brokennone  {"desc_image1": a code editor}
\*   (raises)    generate_vision raises, e.g. ConnectionError
\* text: response_text is not empty; json_match: one of the two searches
\* finds an object; loads: json.loads accepts it; descriptions: what the
\* extraction loop, or after a JSONDecodeError the manual findall, yields
Stage1Response(sample, raised, text, json_match, loads, descriptions) ==
    [sample |-> sample, raises |-> raised, text |-> text, json_match |-> json_match,
     loads |-> loads, descriptions |-> descriptions]

Stage1Responses ==
    {Stage1Response("ok", FALSE, TRUE, TRUE, TRUE, <<"a code editor">>),
     Stage1Response("fenced", FALSE, TRUE, TRUE, TRUE, <<"a code editor">>),
     Stage1Response("empty", FALSE, FALSE, FALSE, FALSE, <<>>),
     Stage1Response("prose", FALSE, TRUE, FALSE, FALSE, <<>>),
     Stage1Response("otherkey", FALSE, TRUE, TRUE, TRUE, <<>>),
     Stage1Response("broken", FALSE, TRUE, TRUE, FALSE, <<"a code editor">>),
     Stage1Response("brokennone", FALSE, TRUE, TRUE, FALSE, <<>>),
     Stage1Response("raises", TRUE, FALSE, FALSE, FALSE, <<>>)}

\* what generate_text can answer in Stage 2:
\*   true        {"Reasoning": "r", "Distracted": true, "Confidence": 90}
\*   false       {"Reasoning": "r", "Distracted": false, "Confidence": 90}
\*   lead        Here is my answer: {"Distracted": true, "Confidence": 90}
\*   strfalse    {"Distracted": "false", "Confidence": "high"}
\*   nokey       {"Reasoning": "r", "Confidence": 90}
\*   empty       the empty text
\*   prose       The user is distracted.
\*   emptyobj    {}
\*   null        null
\*   scalar      true
\*   broken      {"Distracted": true,
\*   (raises)    generate_text raises
\* direct: json.loads of the cleaned text; balanced: json.loads of what
\* find_json_object returns; regex: json.loads of what the last search finds
Stage2Response(sample, raised, text, direct, balanced, regex) ==
    [sample |-> sample, raises |-> raised, text |-> text, direct |-> direct,
     balanced |-> balanced, regex |-> regex]

Stage2Responses ==
    {Stage2Response("true", FALSE, TRUE, Dict(TRUE, PyTrue, "90"), NoJSON, NoJSON),
     Stage2Response("false", FALSE, TRUE, Dict(TRUE, PyFalse, "90"), NoJSON, NoJSON),
     Stage2Response("lead", FALSE, TRUE, NoJSON, Dict(TRUE, PyTrue, "90"), NoJSON),
     Stage2Response("strfalse", FALSE, TRUE, Dict(TRUE, PyTrue, None), NoJSON, NoJSON),
     Stage2Response("nokey", FALSE, TRUE, Dict(TRUE, "absent", "90"), NoJSON, NoJSON),
     Stage2Response("empty", FALSE, FALSE, NoJSON, NoJSON, NoJSON),
     Stage2Response("prose", FALSE, TRUE, NoJSON, NoJSON, NoJSON),
     Stage2Response("emptyobj", FALSE, TRUE, Dict(FALSE, "absent", "absent"), NoJSON, NoJSON),
     Stage2Response("null", FALSE, TRUE, Scalar(FALSE), NoJSON, NoJSON),
     Stage2Response("scalar", FALSE, TRUE, Scalar(TRUE), NoJSON, NoJSON),
     Stage2Response("broken", FALSE, TRUE, NoJSON, NoJSON, NoJSON),
     Stage2Response("raises", TRUE, FALSE, NoJSON, NoJSON, NoJSON)}

\* what generate_text can answer when asked to reparse: an object with a
\* verdict, an object without one, a text with no object, or it raises
ReparseResponses ==
    {[raises |-> FALSE, parsed |-> Dict(TRUE, PyTrue, "90")],
     [raises |-> FALSE, parsed |-> Dict(TRUE, PyFalse, None)],
     [raises |-> FALSE, parsed |-> Dict(TRUE, "absent", "90")],
     [raises |-> FALSE, parsed |-> NoJSON],
     [raises |-> TRUE, parsed |-> NoJSON]}

\* reparse_json_response: the parsed object, or None (here NoJSON) on any
\* failure; it catches what generate_text raises
reparse_json_response(r) == IF r.raises THEN NoJSON ELSE r.parsed

\* the result under construction: stage1_result['descriptions'],
\* stage2_result['distracted'], stage2_result['confidence'], errors; requests
\* are the calls made on the client so far, in order
NewResult ==
    [descriptions |-> <<>>, distracted |-> None, confidence |-> None,
     errors |-> <<>>, requests |-> <<>>]

\* the loops over the items of a parsed object: a key holding "distract"
\* sets stage2_result['distracted'] to bool(value), a key holding "confid"
\* sets stage2_result['confidence']
extract_values(res, parsed) ==
    [res EXCEPT
        !.distracted = IF parsed.distract = "absent" THEN @ ELSE parsed.distract,
        !.confidence = IF parsed.confid = "absent" THEN @ ELSE parsed.confid]

with_error(res, error_msg) == [res EXCEPT !.errors = Append(@, error_msg)]

with_request(res, request) == [res EXCEPT !.requests = Append(@, request)]

\* one reparse attempt and, "if reparsed_json:", the extraction from it
reparse(res, r) ==
    LET reparsed_json == reparse_json_response(r)
        asked == with_request(res, "reparse")
    IN  IF reparsed_json.truthy THEN extract_values(asked, reparsed_json) ELSE asked

\* Stage 1: the try block that describes the screenshots
stage1(res, r) ==
    LET asked == with_request(res, "vision")
    IN  IF r.raises THEN with_error(asked, "Stage 1 error")
        ELSE IF ~r.text THEN asked
        ELSE IF ~r.json_match
             THEN with_error(asked, "No JSON object found in Stage 1 response")
        ELSE IF r.loads THEN [asked EXCEPT !.descriptions = r.descriptions]
        ELSE [with_error(asked, "Failed to parse Stage 1 JSON")
                  EXCEPT !.descriptions = r.descriptions]

\* the three attempts to parse the Stage 2 text, in order
stage2_parsed(r) ==
    IF r.direct.type # "none" THEN r.direct
    ELSE IF r.balanced.type # "none" THEN r.balanced
    ELSE r.regex

\* Stage 2: the try block that decides; rs are the answers to the reparse
\* requests it may make
stage2(res, r, rs) ==
    LET asked == with_request(res, "text")
    IN  IF r.raises THEN with_error(asked, "Stage 2 error")
        ELSE IF r.text
        THEN LET parsed == stage2_parsed(r)
             IN  IF parsed.truthy
                 THEN IF parsed.type = "dict"
                      THEN extract_values(asked, parsed)
                      ELSE with_error(asked, "Stage 2 error")
                 ELSE reparse(with_error(asked, "Failed to parse Stage 2 JSON"), rs[1])
        ELSE LET first == reparse(
                     with_error(asked, "No JSON object found in Stage 2 response"), rs[1])
             IN  reparse(
                     with_error(first, "No JSON object found in Stage 2 response"), rs[2])

\* Stage 2 entered whatever Stage 1 has produced
stage2_runs_always(res) == TRUE

\* "if stage1_result['descriptions']:" the gate of Stage 2
stage2_runs(res) == res.descriptions # <<>>

\* no analyze_screenshots call yet
NoAnalysis ==
    [pc |-> "idle", stage1_response |-> None, stage2_response |-> None,
     reparse_responses |-> <<>>, result |-> NewResult]

AnalyzerIdle == analysis = NoAnalysis

----------------------------------------------------------------------------
(* The file of a DistractionCache, and calls of the pure functions *)

\* cache_file before the first save: it does not exist
NoFile == [exists |-> FALSE, whole |-> FALSE, distractions |-> <<>>]

\* no call on the DistractionCache yet; added are the pairs that were added,
\* in one variant or another, and not removed or cleared since
NoCacheCall ==
    [op |-> "none", process_name |-> "", window_title |-> "", saved |-> "none",
     added |-> {}]

FileIdle ==
    /\ cache_file = NoFile
    /\ cache_call = NoCacheCall

\* no call of a pure function yet; for the image loop of
\* generate_vision_multi list holds image_paths, images the payload's images
\* and error what the call raises before its request
NoProbe ==
    [pc |-> "idle", fn |-> "none", process_name |-> "", list |-> <<>>,
     config |-> process_classification, classification |-> "none", listed |-> FALSE,
     images |-> <<>>, error |-> None]

ProbeIdle == probe = NoProbe

\* the profile names get_cache is called with; None stands for "default"
ProfileNames == {"my profile", "my_profile", None}

\* get_cache / clear_cache: the key of _cache_instances for a profile name
profile_key(profile_name) == IF profile_name = None THEN "default" ELSE profile_name

ProfileKeys == {profile_key(n) : n \in ProfileNames}

\* the characters DistractionCache.__init__ keeps for the file name
kept_in_file_name(c) == isalnum(c) \/ c \in {" ", "-", "_"}

\* DistractionCache.__init__: safe_profile_name, the stem of the cache file
safe_profile_name(profile_name) ==
    LET safe == strip(SelectSeq(chars(profile_key(profile_name)), kept_in_file_name))
    IN  [i \in 1..Len(safe) |-> IF safe[i] = " " THEN "_" ELSE safe[i]]

\* the cache files the profiles can name
CacheFileNames == {safe_profile_name(n) : n \in ProfileNames}

\* module import: _cache_instances is empty; no cache file exists yet
NoProfiles ==
    [present |-> {},
     instances |-> [k \in ProfileKeys |-> {}],
     files |-> [f \in CacheFileNames |-> NoFile],
     call |-> [op |-> "none", profile_name |-> None, constructed |-> FALSE]]

ProfilesIdle == profiles = NoProfiles

\* the base URLs OllamaClient instances are constructed with
BaseUrls == {"http://localhost:11434", "http://gpu-box:11434"}

\* the class attributes as defined, seen from clients of several base URLs:
\* model_cache[u] holds the entries of _model_cache whose key is made with
\* base URL u, indexed as the entries of one client are; tags_cache is the one
\* _tags_cache.
\* alone[u] is history: the caches as the calls on u's clients alone would have
\* left them
NoClients ==
    [servers |-> [u \in BaseUrls |-> <<>>],
     tags_cache |-> NoTags,
     model_cache |-> [u \in BaseUrls |-> [k \in CacheKeys |-> NoEntry]],
     alone |-> [u \in BaseUrls |->
                   [tags_cache |-> NoTags,
                    model_cache |-> [k \in CacheKeys |-> NoEntry]]],
     lookup |-> [op |-> "none", base_url |-> None, model_name |-> None,
                 returned |-> None, alone |-> None]]

ClientsIdle == clients = NoClients

\* MainPage.__init__ and MainWindow.__init__ with a current profile: the switch
\* is off, no timer runs, no session has started. started and saved are
\* history: the sessions started and the calls of save_session; call is the
\* method called last, how often stop_monitoring_session was entered in it and
\* how often it returned at its first check
NoSession ==
    [is_on |-> FALSE, profile_data |-> TRUE,
     monitoring_timer |-> FALSE, session_timer |-> FALSE,
     session_start_time |-> None,
     started |-> 0, saved |-> 0,
     call |-> [method |-> "none", stops |-> 0, returned_early |-> 0]]

SessionIdle == session = NoSession

\* analyzer, cache file and pure functions, as constructed
OthersIdle ==
    /\ AnalyzerIdle
    /\ FileIdle
    /\ ProbeIdle
    /\ ProfilesIdle
    /\ ClientsIdle
    /\ SessionIdle

\* everything outside the monitor and the loop, as constructed
RestIdle ==
    /\ ClientIdle
    /\ server_models = <<>>
    /\ GenIdle
    /\ OthersIdle

----------------------------------------------------------------------------
(* MixedProcessMonitor: scripts/utils/mixed_process_monitor.py *)

\* __init__: nothing tracked
NewMonitor ==
    [current_mixed_process |-> None,
     timer_start_time      |-> NoTime,
     last_checked_process  |-> None]

\* update_process with the work/entertainment branch forgetting the timer
update_process_keeps_timer(m, process_name, classification, t) ==
    IF process_name # m.last_checked_process
    THEN LET m1 == [m EXCEPT !.last_checked_process = process_name]
         IN  IF classification \in {"mixed", "unknown"}
             THEN IF m1.current_mixed_process # process_name
                  THEN [m1 EXCEPT !.current_mixed_process = process_name,
                                  !.timer_start_time = t]
                  ELSE m1
             ELSE [m1 EXCEPT !.current_mixed_process = None]
    ELSE m

\* update_process without the comparison against last_checked_process
update_process_unconditional(m, process_name, classification, t) ==
    LET m1 == [m EXCEPT !.last_checked_process = process_name]
    IN  IF classification \in {"mixed", "unknown"}
        THEN IF m1.current_mixed_process # process_name
             THEN [m1 EXCEPT !.current_mixed_process = process_name,
                             !.timer_start_time = t]
             ELSE m1
        ELSE [m1 EXCEPT !.current_mixed_process = None,
                        !.timer_start_time = NoTime]

\* update_process starting the clock only when none is running
update_process_no_restart(m, process_name, classification, t) ==
    IF process_name # m.last_checked_process
    THEN LET m1 == [m EXCEPT !.last_checked_process = process_name]
         IN  IF classification \in {"mixed", "unknown"}
             THEN IF m1.current_mixed_process # process_name
                  THEN [m1 EXCEPT !.current_mixed_process = process_name,
                                  !.timer_start_time =
                                      IF m.timer_start_time = NoTime
                                      THEN t ELSE m.timer_start_time]
                  ELSE m1
             ELSE [m1 EXCEPT !.current_mixed_process = None,
                             !.timer_start_time = NoTime]
    ELSE m

\* update_process with the work/entertainment branch clearing nothing
update_process_no_clear(m, process_name, classification, t) ==
    IF process_name # m.last_checked_process
    THEN LET m1 == [m EXCEPT !.last_checked_process = process_name]
         IN  IF classification \in {"mixed", "unknown"}
             THEN IF m1.current_mixed_process # process_name
                  THEN [m1 EXCEPT !.current_mixed_process = process_name,
                                  !.timer_start_time = t]
                  ELSE m1
             ELSE m1
    ELSE m

\* update_process(process_name, classification) called at time t
update_process(m, process_name, classification, t) ==
    IF process_name # m.last_checked_process
    THEN LET m1 == [m EXCEPT !.last_checked_process = process_name]
         IN  IF classification \in {"mixed", "unknown"}
             THEN IF m1.current_mixed_process # process_name
                  THEN [m1 EXCEPT !.current_mixed_process = process_name,
                                  !.timer_start_time = t]
                  ELSE m1
             ELSE [m1 EXCEPT !.current_mixed_process = None,
                             !.timer_start_time = NoTime]
    ELSE m

\* should_check comparing with > instead of >=
should_check_strict(m, t) ==
    IF m.current_mixed_process = None \/ m.timer_start_time = NoTime
    THEN FALSE
    ELSE t - m.timer_start_time > timeout_seconds

\* should_check() called at time t: its return value
should_check(m, t) ==
    IF m.current_mixed_process = None \/ m.timer_start_time = NoTime
    THEN FALSE
    ELSE t - m.timer_start_time >= timeout_seconds

\* should_check clearing the tracking itself once it has answered True
after_should_check_resets(m, t) ==
    IF m.current_mixed_process # None /\ m.timer_start_time # NoTime
       /\ t - m.timer_start_time >= timeout_seconds
    THEN [m EXCEPT !.current_mixed_process = None,
                   !.timer_start_time = NoTime,
                   !.last_checked_process = None]
    ELSE m

\* should_check() leaves the monitor as it is: the monitor after the call
after_should_check(m, t) == m

\* reset forgetting last_checked_process
reset_keeps_last_checked(m) ==
    [m EXCEPT !.current_mixed_process = None,
              !.timer_start_time = NoTime]

\* reset()
reset(m) ==
    [m EXCEPT !.current_mixed_process = None,
              !.timer_start_time = NoTime,
              !.last_checked_process = None]

\* get_elapsed_time() called at time t: its return value (NoTime for None)
get_elapsed_time(m, t) ==
    IF m.current_mixed_process = None \/ m.timer_start_time = NoTime
    THEN NoTime
    ELSE t - m.timer_start_time

\* get_elapsed_time() leaves the monitor as it is: the monitor after the call
after_get_elapsed_time(m, t) == m

----------------------------------------------------------------------------
(* SpecMonitor: one MixedProcessMonitor, any caller *)

\* a call on the monitor: what was called, with what, what it returned, and the
\* monitor it was called on
Call(op, process_name, classification, returned) ==
    [op |-> op, process_name |-> process_name, classification |-> classification,
     returned |-> returned, before |-> mixed_process_monitor]

NoCall ==
    [op |-> "init", process_name |-> None, classification |-> None,
     returned |-> None, before |-> NewMonitor]

MonitorInit ==
    /\ mixed_process_monitor = NewMonitor
    /\ now = 0
    /\ call = NoCall
    /\ cleared_by = None
    /\ tracked_since_reset = NoTime
    /\ reset_after_expiry = FALSE
    /\ observed_at = NoTime

\* what one run of check_current_process did
Tick(route, expired, skipped, shot, analysed, verdict, key, popup, dwelt) ==
    [route |-> route, expired |-> expired, skipped |-> skipped, shot |-> shot,
     analysed |-> analysed, verdict |-> verdict, key |-> key, popup |-> popup,
     dwelt |-> dwelt]

NoTick == Tick("none", FALSE, FALSE, "none", FALSE, "none", NoKey, FALSE, 0)

\* no run of polls on one process
NoDwell == [process |-> None, since |-> NoTime]

\* MainPage.__init__: not monitoring, nothing remembered
PageIdle ==
    /\ is_monitoring = FALSE
    /\ next_poll = 0
    /\ previous_process_name = None
    /\ previous_classification = None
    /\ last_analyzed_key = NoKey
    /\ last_analysis_result = None
    /\ current_popup = None
    /\ session_distraction_count = 0
    /\ session_popup_count = 0
    /\ tick = NoTick
    /\ dwell = NoDwell
    /\ settled_key = NoKey

\* and no cache entry
LoopIdle ==
    /\ PageIdle
    /\ cache = {}

InitMonitor ==
    /\ MonitorInit
    /\ LoopIdle
    /\ RestIdle
    /\ foreground = [process |-> None, title |-> ""]

\* the names a caller may pass to update_process: any str, the empty one included
MonitorNames == Procs \cup {""}

\* the caller calls update_process(p, c)
MonUpdateProcess ==
    \E p \in MonitorNames, c \in Classifications :
        /\ mixed_process_monitor' = update_process(mixed_process_monitor, p, c, now)
        /\ call' = Call("update_process", p, c, None)
        /\ cleared_by' =
               IF p # mixed_process_monitor.last_checked_process
                  /\ c \in {"work", "entertainment"}
               THEN p
               ELSE IF c \in {"mixed", "unknown"} /\ p # cleared_by
                    THEN None
                    ELSE cleared_by
        /\ tracked_since_reset' =
               IF c \in {"mixed", "unknown"} /\ tracked_since_reset = NoTime
               THEN now
               ELSE tracked_since_reset
        /\ observed_at' =
               IF p = mixed_process_monitor.last_checked_process
               THEN observed_at
               ELSE IF c \in {"mixed", "unknown"} THEN now ELSE NoTime
        /\ UNCHANGED <<now, reset_after_expiry>>
        /\ UNCHANGED loopVars
        /\ UNCHANGED restVars

\* the caller calls should_check()
MonShouldCheck ==
    /\ mixed_process_monitor' = after_should_check(mixed_process_monitor, now)
    /\ call' = Call("should_check", None, None, should_check(mixed_process_monitor, now))
    /\ UNCHANGED <<now, cleared_by, tracked_since_reset, reset_after_expiry, observed_at>>
    /\ UNCHANGED loopVars
    /\ UNCHANGED restVars

\* the caller calls get_elapsed_time()
MonGetElapsedTime ==
    /\ mixed_process_monitor' = after_get_elapsed_time(mixed_process_monitor, now)
    /\ call' = Call("get_elapsed_time", None, None,
                     get_elapsed_time(mixed_process_monitor, now))
    /\ UNCHANGED <<now, cleared_by, tracked_since_reset, reset_after_expiry, observed_at>>
    /\ UNCHANGED loopVars
    /\ UNCHANGED restVars

\* the caller calls reset()
MonReset ==
    /\ mixed_process_monitor' = reset(mixed_process_monitor)
    /\ call' = Call("reset", None, None, None)
    /\ tracked_since_reset' = NoTime
    /\ observed_at' = NoTime
    /\ reset_after_expiry' =
           (reset_after_expiry \/ should_check(mixed_process_monitor, now))
    /\ UNCHANGED <<now, cleared_by>>
    /\ UNCHANGED loopVars
    /\ UNCHANGED restVars

\* a second passes between two calls
MonTimePasses ==
    /\ now < MaxTime
    /\ now' = now + 1
    /\ call' = Call("sleep", None, None, None)
    /\ UNCHANGED <<mixed_process_monitor, cleared_by, tracked_since_reset,
                   reset_after_expiry, observed_at>>
    /\ UNCHANGED loopVars
    /\ UNCHANGED restVars

NextMonitor ==
    \/ MonUpdateProcess
    \/ MonShouldCheck
    \/ MonGetElapsedTime
    \/ MonReset
    \/ MonTimePasses

SpecMonitor == InitMonitor /\ [][NextMonitor]_vars

----------------------------------------------------------------------------
(* DistractionCache: scripts/utils/distraction_cache.py *)

\* DistractionCache._normalize_key
normalize_key(process_name, window_title) ==
    <<strip(lower(chars(IF falsy(process_name) THEN "" ELSE process_name))),
      strip(lower(chars(IF falsy(window_title) THEN "" ELSE window_title)))>>

\* DistractionCache.is_distracting, on the set c of cached pairs
is_distracting(c, process_name, window_title) ==
    normalize_key(process_name, window_title) \in c

\* list(item) for a tuple, tuple(item) for a list read from JSON
list_of(item) == [list |-> item]
tuple_of(item) == item.list

\* the orders in which a set can be iterated
Orderings(S) ==
    {q \in [1..Cardinality(S) -> S] : \A i, j \in 1..Cardinality(S) : q[i] = q[j] => i = j}

\* how DistractionCache.save can end: the document is written; mkdir or open
\* raises and the file is as it was; open has emptied the file and json.dump
\* raises before the document is complete. save logs the exception and returns
SaveOutcomes == {"written", "not opened", "cut short"}

\* DistractionCache.save: the files it can leave for the set c over file f
save(c, f, outcome) ==
    CASE outcome = "written" ->
             {[exists |-> TRUE, whole |-> TRUE,
               distractions |-> [i \in 1..Len(q) |-> list_of(q[i])]] : q \in Orderings(c)}
      [] outcome = "not opened" -> {f}
      [] outcome = "cut short" -> {[exists |-> TRUE, whole |-> FALSE, distractions |-> <<>>]}

\* DistractionCache.load: the set a new instance holds for file f; a file that
\* json.load rejects gives the empty set
load(f) ==
    IF f.exists /\ f.whole
    THEN {tuple_of(f.distractions[i]) : i \in 1..Len(f.distractions)}
    ELSE {}

\* DistractionCache.add_distracting, remove and clear, on the set c
add_distracting(c, process_name, window_title) ==
    c \cup {normalize_key(process_name, window_title)}

remove(c, process_name, window_title) ==
    c \ {normalize_key(process_name, window_title)}

clear(c) == {}

----------------------------------------------------------------------------
(* The monitoring loop: MainPage in window.py                                *)
(*                                                                         *)
(* A profile is loaded (profile_data is set, its blacklist is blacklist),  *)
(* the classification modules are importable (CLASSIFICATION_AVAILABLE,    *)
(* self.config and self.mixed_process_monitor are set) and PenguinPopup is *)
(* available, so check_current_process never reaches its legacy browser    *)
(* path. The screenshot taken when a process is first seen (lines 855-863) *)
(* changes no field and is left out.                                       *)

\* what the user can have in the foreground: a process and its window title, or
\* a window whose process cannot be read
Foregrounds ==
    {[process |-> "code.exe",    title |-> "docs"],
     [process |-> "game.exe",    title |-> "video"],
     [process |-> "youtube.exe", title |-> "video"],
     [process |-> "chrome.exe",  title |-> "docs"],
     [process |-> "chrome.exe",  title |-> "video"],
     [process |-> "foo.exe",     title |-> "docs"],
     [process |-> "foo.exe",     title |-> "video"],
     [process |-> None,          title |-> ""]}

\* process_monitor.get_foreground_process_name(): the lowercased name, or None
get_foreground_process_name(fg) == fg.process

\* process_monitor.get_foreground_window_title()
get_foreground_window_title(fg) == fg.title

\* f"{process_name}|{window_title}"
Key(process_name, window_title) == <<process_name, window_title>>

\* the fields of MainPage, the desktop and the clock that a poll reads and writes
Page ==
    [monitor                   |-> mixed_process_monitor,
     previous_process_name     |-> previous_process_name,
     previous_classification   |-> previous_classification,
     last_analyzed_key         |-> last_analyzed_key,
     last_analysis_result      |-> last_analysis_result,
     current_popup             |-> current_popup,
     session_distraction_count |-> session_distraction_count,
     session_popup_count       |-> session_popup_count,
     foreground                |-> foreground,
     now                       |-> now,
     dwell                     |-> dwell,
     tick                      |-> tick]

\* MainPage.show_penguin_popup
show_penguin_popup(page) ==
    [page EXCEPT !.session_distraction_count = @ + 1,
                 !.current_popup = "visible",
                 !.session_popup_count = @ + 1]

\* a popup shown on every alert, visible or not
popup_over_visible(page) == show_penguin_popup(page)

\* if self.current_popup is None or not self.current_popup.isVisible():
\*     self.show_penguin_popup(...)
popup_unless_visible(page) ==
    IF page.current_popup = None \/ page.current_popup # "visible"
    THEN show_penguin_popup(page)
    ELSE page

\* the outcomes of the calls a poll makes once the timer has expired:
\*   shot     capture_single_screenshot: a path, None, or an exception
\*   verdict  analyze_screenshots: stage2.distracted True, False or None, or an
\*            exception
\*   d        the seconds the screenshot and the analysis took
\*   fg2      the foreground window when the analysis returns
QuietInput ==
    [shot |-> "none", verdict |-> "none", d |-> 0, fg2 |-> foreground]

ExpiryInputs ==
    {[shot |-> sh, verdict |-> "none", d |-> 0, fg2 |-> foreground] :
        sh \in {"none", "error"}}
    \cup
    {[shot |-> "saved", verdict |-> v, d |-> d, fg2 |-> f] :
        v \in {"distracted", "working", "undetermined", "error"},
        d \in 0..MaxAnalysisTime,
        f \in Foregrounds}

\* the run of consecutive polls that saw process_name, this poll included
dwell_at(page, process_name) ==
    IF process_name = None
    THEN NoDwell
    ELSE IF page.dwell.process = process_name
         THEN page.dwell
         ELSE [process |-> process_name, since |-> page.now]

\* the foreground not compared with the key analysed
still_on_page_unchecked(current_key_check, current_key) == TRUE

\* "if current_key_check == current_key:" the user is still on the page that
\* was analysed
still_on_page(current_key_check, current_key) == current_key_check = current_key

\* an expiry that is never skipped
never_not_distracted(page, current_key) == FALSE

\* "if self.last_analyzed_key == current_key and
\*     self.last_analysis_result == False:" the expiry is skipped
already_not_distracted(page, current_key) ==
    /\ page.last_analyzed_key = current_key
    /\ page.last_analysis_result = PyFalse

\* check_current_process, the mixed and the unknown branch (they differ in
\* their log messages only): the process is neither blacklisted, work nor
\* entertainment
check_tracked(page, process_name, process_changed, classification, inp) ==
    LET window_title == IF falsy(get_foreground_window_title(page.foreground))
                        THEN ""
                        ELSE get_foreground_window_title(page.foreground)
        current_key == Key(process_name, window_title)
        fresh == \/ process_changed
                 \/ page.last_analyzed_key = NoKey
                 \/ current_key # page.last_analyzed_key
        changed_key == /\ page.last_analyzed_key # NoKey
                       /\ current_key # page.last_analyzed_key
        \* "Reset analysis tracking when process or window changes"
        p1 == IF fresh /\ changed_key
              THEN [page EXCEPT !.last_analyzed_key = NoKey,
                                !.last_analysis_result = None]
              ELSE page
        \* "Set the key to prevent continuous resets"
        p2 == IF fresh /\ p1.last_analyzed_key = NoKey
              THEN [p1 EXCEPT !.last_analyzed_key = current_key]
              ELSE p1
        p3 == [p2 EXCEPT !.monitor =
                  update_process(p2.monitor, process_name, classification, p2.now)]
        expired == should_check(p3.monitor, p3.now)
        dwelt == p3.now - p3.dwell.since
        done(p, skipped, shot, analysed, verdict, popup) ==
            [p EXCEPT !.tick = Tick("tracked", expired, skipped, shot, analysed,
                                    verdict, current_key, popup, dwelt)]
        \* the analysis ran: time has passed, the user may have moved on, and
        \* the dwell it answered is used up
        after(p) == [p EXCEPT !.now = p.now + inp.d,
                              !.foreground = inp.fg2,
                              !.dwell = NoDwell]
        record(p, result) == [p EXCEPT !.last_analyzed_key = current_key,
                                       !.last_analysis_result = result]
        handled(p) == [p EXCEPT !.monitor = reset(p.monitor)]
    IN  IF ~expired
        THEN done(p3, FALSE, "none", FALSE, "none", FALSE)
        ELSE IF already_not_distracted(p3, current_key)
        THEN \* "Skipping VLM analysis - already determined ... is not distracted"
             done(handled(p3), TRUE, "none", FALSE, "none", FALSE)
        ELSE IF inp.shot = "error"
        THEN \* except Exception: "Reset timer even on error"
             done(handled(p3), FALSE, "error", FALSE, "none", FALSE)
        ELSE IF inp.shot = "none"
        THEN \* "if screenshot_path and ..." is false: nothing more is done
             done(p3, FALSE, "none", FALSE, "none", FALSE)
        ELSE IF inp.verdict = "error"
        THEN done(handled(after(p3)), FALSE, "saved", TRUE, "error", FALSE)
        ELSE IF inp.verdict = "distracted"
        THEN LET p4 == after(p3)
                 current_process_check == get_foreground_process_name(p4.foreground)
                 current_window_check ==
                     IF falsy(get_foreground_window_title(p4.foreground))
                     THEN ""
                     ELSE get_foreground_window_title(p4.foreground)
                 current_key_check == Key(current_process_check, current_window_check)
                 p5 == IF still_on_page(current_key_check, current_key)
                       THEN popup_unless_visible(record(p4, PyTrue))
                       ELSE record(p4, PyTrue)
             IN  done(handled(p5), FALSE, "saved", TRUE, "distracted",
                      p5.session_popup_count # p4.session_popup_count)
        ELSE done(handled(record(after(p3), PyFalse)), FALSE, "saved", TRUE,
                  inp.verdict, FALSE)

\* MainPage.check_current_process: one run of the poll handler on page, with
\* the outcomes inp of the calls it makes
check_current_process(page, inp) ==
    LET process_name == get_foreground_process_name(page.foreground)
        p0 == [page EXCEPT !.dwell = dwell_at(page, process_name)]
        quiet(p, route, popup) ==
            [p EXCEPT !.tick = Tick(route, FALSE, FALSE, "none", FALSE, "none",
                                    NoKey, popup, 0)]
    IN  IF falsy(process_name)
        THEN quiet(p0, "undetected", FALSE)
        ELSE
        LET process_changed == process_name # p0.previous_process_name
            p1 == [p0 EXCEPT !.previous_process_name = process_name]
        IN  IF is_in_blacklist(process_name, blacklist)
            THEN quiet(popup_unless_visible(p1), "blacklist",
                       p1.current_popup # "visible")
            ELSE
            LET classification == classify_process(process_name, process_classification)
                \* "Check if user tabbed away from Mixed/Unknown process"
                p2 == IF /\ p1.previous_classification \in {"mixed", "unknown"}
                         /\ classification \notin {"mixed", "unknown"}
                      THEN [p1 EXCEPT !.monitor = reset(p1.monitor)]
                      ELSE p1
                p3 == [p2 EXCEPT !.previous_classification = classification]
            IN  IF classification = "entertainment"
                THEN quiet(popup_unless_visible(p3), "entertainment",
                           p3.current_popup # "visible")
                ELSE IF classification = "work"
                THEN quiet(p3, "work", FALSE)
                ELSE check_tracked(p3, process_name, process_changed,
                                   classification, inp)

\* the page after a poll becomes the state
Becomes(page) ==
    /\ mixed_process_monitor' = page.monitor
    /\ previous_process_name' = page.previous_process_name
    /\ previous_classification' = page.previous_classification
    /\ last_analyzed_key' = page.last_analyzed_key
    /\ last_analysis_result' = page.last_analysis_result
    /\ current_popup' = page.current_popup
    /\ session_distraction_count' = page.session_distraction_count
    /\ session_popup_count' = page.session_popup_count
    /\ foreground' = page.foreground
    /\ now' = page.now
    /\ dwell' = page.dwell
    /\ tick' = page.tick

\* the key of a foreground window, as the loop builds it
FgKey(fg) ==
    Key(get_foreground_process_name(fg),
        IF falsy(get_foreground_window_title(fg)) THEN "" ELSE get_foreground_window_title(fg))

\* settled_key with the foreground fg: kept while fg has that key
settled_with(key, fg) == IF key # NoKey /\ FgKey(fg) = key THEN key ELSE NoKey

\* settled_key after a poll that made page: the key of a not-distracted
\* verdict of this poll, or the one before
Settles(page) ==
    settled_key' =
        settled_with(IF page.tick.analysed /\ page.tick.verdict = "working"
                     THEN page.tick.key
                     ELSE settled_key,
                     page.foreground)

\* the outcomes to consider for a poll on page: those of the screenshot and the
\* analysis matter only to a poll that finds the timer expired and does not skip
InputsFor(page) ==
    LET t == check_current_process(page, QuietInput).tick
    IN  IF t.expired /\ ~t.skipped
        THEN {i \in ExpiryInputs : page.now + i.d <= MaxTime}
        ELSE {QuietInput}

\* MainPage.start_monitoring_session past its checks (a profile is loaded,
\* psutil and pywin32 are installed), on MainPage's fields: the first poll runs
\* at once
StartsMonitoring ==
    /\ ~is_monitoring
    /\ LET page == [Page EXCEPT !.session_popup_count = 0,
                                !.session_distraction_count = 0]
       IN  \E inp \in InputsFor(page) :
               /\ Becomes(check_current_process(page, inp))
               /\ Settles(check_current_process(page, inp))
    /\ is_monitoring' = TRUE
    /\ next_poll' = now + PollInterval
    /\ UNCHANGED <<cache, callVars>>

StartMonitoringSession ==
    /\ StartsMonitoring
    /\ UNCHANGED restVars

\* MainPage.stop_monitoring_session past its first check, on MainPage's fields
StopsMonitoring ==
    /\ is_monitoring
    /\ is_monitoring' = FALSE
    /\ previous_process_name' = None
    /\ previous_classification' = None
    /\ last_analyzed_key' = NoKey
    /\ last_analysis_result' = None
    /\ mixed_process_monitor' = reset(mixed_process_monitor)
    /\ dwell' = NoDwell
    /\ tick' = NoTick
    /\ settled_key' = NoKey
    /\ UNCHANGED <<now, next_poll, current_popup, session_distraction_count,
                   session_popup_count, foreground, cache, callVars>>

\* MainPage.stop_monitoring_session; the switch, the timers and the sessions
\* file are followed in SpecSession
StopMonitoringSession ==
    /\ StopsMonitoring
    /\ UNCHANGED restVars

\* monitoring_timer fires: check_current_process
PollTick ==
    /\ is_monitoring
    /\ now >= next_poll
    /\ \E inp \in InputsFor(Page) :
           /\ Becomes(check_current_process(Page, inp))
           /\ Settles(check_current_process(Page, inp))
    /\ next_poll' = now + PollInterval
    /\ UNCHANGED <<is_monitoring, cache, callVars>>
    /\ UNCHANGED restVars

\* the user brings another window to the foreground
UserSwitches ==
    /\ \E fg \in Foregrounds :
           /\ fg # foreground
           /\ foreground' = fg
           /\ settled_key' = settled_with(settled_key, fg)
    /\ UNCHANGED <<mixed_process_monitor, now, is_monitoring, next_poll,
                   previous_process_name, previous_classification,
                   last_analyzed_key, last_analysis_result, current_popup,
                   session_distraction_count, session_popup_count,
                   cache, tick, dwell, callVars>>
    /\ UNCHANGED restVars

\* PenguinPopup.mousePressEvent, the last of the required clicks: hide and close
UserDismissesPopup ==
    /\ current_popup = "visible"
    /\ current_popup' = "closed"
    /\ UNCHANGED <<mixed_process_monitor, now, is_monitoring, next_poll,
                   previous_process_name, previous_classification,
                   last_analyzed_key, last_analysis_result,
                   session_distraction_count, session_popup_count, foreground,
                   cache, tick, dwell, settled_key, callVars>>
    /\ UNCHANGED restVars

\* a second passes; a running monitoring_timer fires when it is due
TimePasses ==
    /\ now < MaxTime
    /\ is_monitoring => now < next_poll
    /\ now' = now + 1
    /\ UNCHANGED <<mixed_process_monitor, is_monitoring, next_poll,
                   previous_process_name, previous_classification,
                   last_analyzed_key, last_analysis_result, current_popup,
                   session_distraction_count, session_popup_count, foreground,
                   cache, tick, dwell, settled_key, callVars>>
    /\ UNCHANGED restVars

Init ==
    /\ MonitorInit
    /\ LoopIdle
    /\ RestIdle
    /\ foreground \in Foregrounds

Next ==
    \/ StartMonitoringSession
    \/ StopMonitoringSession
    \/ PollTick
    \/ UserSwitches
    \/ UserDismissesPopup
    \/ TimePasses

Spec == Init /\ [][Next]_vars

----------------------------------------------------------------------------
(* SpecSession: the toggle switch, start_monitoring_session and              *)
(* stop_monitoring_session with the timers and the session records, while    *)
(* the user clicks the switch, selects profiles and changes windows. The     *)
(* clock stands still: a running monitoring_timer is taken to fire           *)

\* the most sessions started
MaxSessions == 2

\* a handler begins: nothing entered yet
called(method) == [method |-> method, stops |-> 0, returned_early |-> 0]

\* stop_monitoring_session entered regardless of is_monitoring
stop_never_returns_early(m) == FALSE

\* stop_monitoring_session: "if not self.is_monitoring: return"
stop_returns_early(m) == ~m.is_monitoring

RECURSIVE stop_monitoring_session(_)

\* ToggleSwitch.setChecked(False): if the switch is on, toggle() turns it off
\* and emits toggled(False), which runs on_toggle_switched(False)
setChecked_False(m) ==
    IF m.s.is_on
    THEN stop_monitoring_session([m EXCEPT !.s.is_on = FALSE])
    ELSE m

\* MainPage.stop_monitoring_session on m = [is_monitoring, s], s the switch,
\* the timers and the records (MainPage's tracking fields are cleared in
\* StopsMonitoring)
stop_monitoring_session(m) ==
    LET entered == [m EXCEPT !.s.call.stops = @ + 1]
    IN  IF stop_returns_early(entered)
        THEN [entered EXCEPT !.s.call.returned_early = @ + 1]
        ELSE LET stopped == [entered EXCEPT !.s.monitoring_timer = FALSE,
                                            !.s.session_timer = FALSE,
                                            !.is_monitoring = FALSE]
                 unchecked == setChecked_False(stopped)
             IN  IF unchecked.s.session_start_time # None
                 THEN \* save_session(session_data)
                      [unchecked EXCEPT !.s.saved = @ + 1]
                 ELSE unchecked

\* MainPage's fields other than is_monitoring
pageFields ==
    <<mixed_process_monitor, callVars, next_poll, previous_process_name,
      previous_classification, last_analyzed_key, last_analysis_result,
      current_popup, session_distraction_count, session_popup_count, foreground,
      cache, tick, dwell, settled_key>>

exceptSession == <<clientVars, genVars, analysis, fileVars, probe, profiles, clients>>

\* stop_monitoring_session() is called in handler method, the switch being as
\* in s
StopCalled(method, s) ==
    LET m == [is_monitoring |-> is_monitoring, s |-> [s EXCEPT !.call = called(method)]]
    IN  /\ session' = stop_monitoring_session(m).s
        /\ IF stop_returns_early(m)
           THEN UNCHANGED <<now, is_monitoring, pageFields>>
           ELSE StopsMonitoring

\* start_monitoring_session() is called, the switch being as in s
StartCalled(s) ==
    IF is_monitoring
    THEN \* "if self.is_monitoring: return"
         /\ session' = [s EXCEPT !.call = called("start_monitoring_session")]
         /\ UNCHANGED <<now, is_monitoring, pageFields>>
    ELSE IF ~s.profile_data
    THEN \* the warning box, "self.toggle_switch.setChecked(False)", return
         /\ session' = setChecked_False(
                           [is_monitoring |-> is_monitoring,
                            s |-> [s EXCEPT !.call = called("start_monitoring_session")]]).s
         /\ UNCHANGED <<now, is_monitoring, pageFields>>
    ELSE /\ s.started < MaxSessions
         /\ session' = [s EXCEPT !.session_start_time = "set",
                                  !.monitoring_timer = TRUE,
                                  !.session_timer = TRUE,
                                  !.started = @ + 1,
                                  !.call = called("start_monitoring_session")]
         /\ StartsMonitoring

InitSession ==
    /\ MonitorInit
    /\ LoopIdle
    /\ foreground \in Foregrounds
    /\ ClientIdle
    /\ server_models = <<>>
    /\ GenIdle
    /\ AnalyzerIdle
    /\ FileIdle
    /\ ProbeIdle
    /\ ProfilesIdle
    /\ ClientsIdle
    /\ \E loaded \in BOOLEAN : session = [NoSession EXCEPT !.profile_data = loaded]

\* ToggleSwitch.mousePressEvent: toggle() and, through toggled,
\* MainPage.on_toggle_switched(is_on)
UserClicksSwitch ==
    /\ IF ~session.is_on
       THEN StartCalled([session EXCEPT !.is_on = TRUE])
       ELSE StopCalled("stop_monitoring_session", [session EXCEPT !.is_on = FALSE])
    /\ UNCHANGED exceptSession

\* start_monitoring_session() called once more while monitoring (the switch's
\* signal is its only caller in the program; the method's first check is for
\* this call)
StartCalledAgain ==
    /\ is_monitoring
    /\ StartCalled(session)
    /\ UNCHANGED exceptSession

\* monitoring_timer fires and check_current_process finds no profile data:
\* "self.stop_monitoring_session(); return"
PollWithoutProfile ==
    /\ session.monitoring_timer
    /\ ~session.profile_data
    /\ StopCalled("check_current_process", session)
    /\ UNCHANGED exceptSession

\* ProfileSelectionPage.select_profile: load_profile gives the profile's data,
\* or None for a profile whose file is gone
SelectProfile ==
    /\ \E loaded \in BOOLEAN :
           /\ loaded # session.profile_data
           /\ session' = [session EXCEPT !.profile_data = loaded, !.call = called("none")]
    /\ UNCHANGED <<now, is_monitoring, pageFields>>
    /\ UNCHANGED exceptSession

NextSession ==
    \/ UserClicksSwitch
    \/ StartCalledAgain
    \/ PollWithoutProfile
    \/ SelectProfile
    \/ UserSwitches
    \/ UserDismissesPopup

SpecSession == InitSession /\ [][NextSession]_vars

----------------------------------------------------------------------------
(* SpecClient: the model caches of OllamaClient against a server whose model *)
(* list changes (models are pulled and removed) and which may be down        *)

\* the clock stops advancing here
MaxClientTime == 60

\* the seconds between two instants at which calls are made
ClockStep == 15

Client == [tags_cache |-> tags_cache, model_cache |-> model_cache]

Server == [up |-> server_up, models |-> server_models]

\* history: when the list a call at time "now" works on was read from the server
source_time == IF tags_fresh(tags_cache, now) THEN tags_cache.cache_time ELSE now

InitClient ==
    /\ MonitorInit
    /\ LoopIdle
    /\ foreground = [process |-> None, title |-> ""]
    /\ ClientIdle
    /\ server_models \in ServerLists
    /\ GenIdle
    /\ OthersIdle

\* some caller calls check_model_available(n)
ClientCheckModelAvailable ==
    \E n \in ModelNames :
        LET r == check_model_available(Client, Server, n, now)
            hit == entry_fresh(Client, n, now)
        IN  /\ tags_cache' = r.client.tags_cache
            /\ model_cache' = r.client.model_cache
            /\ read_at' = IF hit THEN read_at
                          ELSE [read_at EXCEPT ![cache_key(n)] = source_time]
            /\ lookup' = [op |-> "check_model_available", model_name |-> n,
                          returned |-> r.returned, from_cache |-> hit,
                          fetched |-> r.client.tags_cache # tags_cache]
            /\ UNCHANGED <<now, server_models, server_up>>
            /\ UNCHANGED exceptClient

\* some caller calls _resolve_model_name(n)
ClientResolveModelName ==
    \E n \in ModelNames :
        LET r == resolve_model_name(Client, Server, n, now)
            entry == model_cache[cache_key(n)]
            hit == entry_fresh(Client, n, now) /\ ~falsy(entry.resolved_name)
        IN  /\ tags_cache' = r.client.tags_cache
            /\ model_cache' = r.client.model_cache
            /\ read_at' = IF hit \/ entry # NoEntry THEN read_at
                          ELSE [read_at EXCEPT ![cache_key(n)] = source_time]
            /\ lookup' = [op |-> "_resolve_model_name", model_name |-> n,
                          returned |-> r.returned, from_cache |-> hit,
                          fetched |-> r.client.tags_cache # tags_cache]
            /\ UNCHANGED <<now, server_models, server_up>>
            /\ UNCHANGED exceptClient

\* a model is pulled or removed on the server
ServerModelsChange ==
    /\ \E l \in ServerLists :
           /\ l # server_models
           /\ server_models' = l
    /\ lookup' = NoLookup
    /\ UNCHANGED <<now, server_up, tags_cache, model_cache, read_at>>
    /\ UNCHANGED exceptClient

\* the server stops or starts answering
ServerUpDown ==
    /\ server_up' = ~server_up
    /\ lookup' = NoLookup
    /\ UNCHANGED <<now, server_models, tags_cache, model_cache, read_at>>
    /\ UNCHANGED exceptClient

\* time passes between two calls
ClientTimePasses ==
    /\ now + ClockStep <= MaxClientTime
    /\ now' = now + ClockStep
    /\ lookup' = NoLookup
    /\ UNCHANGED <<server_models, server_up, tags_cache, model_cache, read_at>>
    /\ UNCHANGED exceptClient

NextClient ==
    \/ ClientCheckModelAvailable
    \/ ClientResolveModelName
    \/ ServerModelsChange
    \/ ServerUpDown
    \/ ClientTimePasses

SpecClient == InitClient /\ [][NextClient]_vars

----------------------------------------------------------------------------
(* SpecClients: OllamaClient instances of two base URLs, each URL with its   *)
(* own server and model list, making calls in one process                    *)

\* the clock stops advancing here: one TTL after the first call
MaxClientsTime == 30

InitClients ==
    /\ MonitorInit
    /\ LoopIdle
    /\ foreground = [process |-> None, title |-> ""]
    /\ ClientIdle
    /\ server_models = <<>>
    /\ GenIdle
    /\ AnalyzerIdle
    /\ FileIdle
    /\ ProbeIdle
    /\ ProfilesIdle
    /\ SessionIdle
    /\ \E s \in [BaseUrls -> ServerLists] : clients = [NoClients EXCEPT !.servers = s]

exceptClients ==
    <<monitorLoopVars, clientVars, genVars, analysis, fileVars, probe, profiles, session>>

\* the caches a client of base URL u works on
ClientOf(u) == [tags_cache |-> clients.tags_cache, model_cache |-> clients.model_cache[u]]

\* the server at base URL u
ServerAt(u) == [up |-> TRUE, models |-> clients.servers[u]]

\* the caches after a call on a client of base URL u that left r, the same
\* call on u's own caches having left a
clients_after(u, n, op, r, a) ==
    [clients EXCEPT !.tags_cache = r.client.tags_cache,
                    !.model_cache[u] = r.client.model_cache,
                    !.alone[u] = a.client,
                    !.lookup = [op |-> op, base_url |-> u, model_name |-> n,
                                returned |-> r.returned, alone |-> a.returned]]

\* a client of base URL u calls check_model_available(n)
ClientsCheckModelAvailable ==
    /\ \E u \in BaseUrls, n \in ModelNames :
           clients' = clients_after(u, n, "check_model_available",
                          check_model_available(ClientOf(u), ServerAt(u), n, now),
                          check_model_available(clients.alone[u], ServerAt(u), n, now))
    /\ UNCHANGED <<now, exceptClients>>

\* a client of base URL u calls _resolve_model_name(n)
ClientsResolveModelName ==
    /\ \E u \in BaseUrls, n \in ModelNames :
           clients' = clients_after(u, n, "_resolve_model_name",
                          resolve_model_name(ClientOf(u), ServerAt(u), n, now),
                          resolve_model_name(clients.alone[u], ServerAt(u), n, now))
    /\ UNCHANGED <<now, exceptClients>>

\* time passes between two calls
ClientsTimePass ==
    /\ now + ClockStep <= MaxClientsTime
    /\ now' = now + ClockStep
    /\ clients' = [clients EXCEPT !.lookup = NoClients.lookup]
    /\ UNCHANGED exceptClients

NextClients ==
    \/ ClientsCheckModelAvailable
    \/ ClientsResolveModelName
    \/ ClientsTimePass

SpecClients == InitClients /\ [][NextClients]_vars

----------------------------------------------------------------------------
(* SpecGenerate: one caller making generate_* calls, one after the other,    *)
(* while the user may move on (check_cancelled() turns True)                 *)

\* the most lines a streamed response has
MaxChunks == 3

StreamBodies == UNION {[1..n -> Lines] : n \in 0..MaxChunks}

\* the second POST of a call that retries: its status and its lines
Retries ==
    {[status |-> 500, lines |-> <<>>]}
    \cup {[status |-> 200, lines |-> b] : b \in StreamBodies}

InitGenerate ==
    /\ MonitorInit
    /\ LoopIdle
    /\ foreground = [process |-> None, title |-> ""]
    /\ ClientIdle
    /\ server_models = <<>>
    /\ GenIdle
    /\ OthersIdle

\* a caller makes a call; requests.post returns a status other than 200
\* (RuntimeError), or the call is streamed and its response begins
GeneratePost ==
    /\ gen.pc \in {"idle", "returned", "raised"}
    /\ \E method \in Methods, stream \in BOOLEAN, check_cancelled \in BOOLEAN :
           LET g == [NoGen EXCEPT !.method = method, !.stream = stream,
                                  !.check_cancelled = check_cancelled,
                                  !.posts = 1]
           IN  \/ gen' = raises(g, "RuntimeError")
               \/ /\ stream
                  /\ \E body \in StreamBodies :
                         gen' = [g EXCEPT !.pc = "streaming", !.pending = body]
    /\ cancelled' = FALSE
    /\ UNCHANGED exceptGenerate

\* a caller makes a call that is not streamed: it runs to its return
GenerateNotStreamed ==
    /\ gen.pc \in {"idle", "returned", "raised"}
    /\ \E method \in Methods, check_cancelled \in BOOLEAN, answer \in Answers :
           LET g == [NoGen EXCEPT !.method = method, !.stream = FALSE,
                                  !.check_cancelled = check_cancelled,
                                  !.posts = 1]
           IN  \E retry \in IF retries(method, answer, FALSE)
                            THEN Retries
                            ELSE {[status |-> 500, lines |-> <<>>]} :
                   gen' = not_streamed(g, answer, retry)
    /\ cancelled' = FALSE
    /\ UNCHANGED exceptGenerate

\* the next line of a streamed response arrives
GenerateNextLine ==
    /\ gen.pc = "streaming"
    /\ gen.pending # <<>>
    /\ gen' = stream_line(gen, cancelled)
    /\ UNCHANGED <<cancelled, exceptGenerate>>

\* the streamed response ends
GenerateStreamEnds ==
    /\ gen.pc = "streaming"
    /\ gen.pending = <<>>
    /\ gen' = stream_ends(gen)
    /\ UNCHANGED <<cancelled, exceptGenerate>>

\* the user changes page while a response is streaming
UserMovesOn ==
    /\ gen.pc = "streaming"
    /\ ~cancelled
    /\ cancelled' = TRUE
    /\ UNCHANGED <<gen, exceptGenerate>>

NextGenerate ==
    \/ GeneratePost
    \/ GenerateNotStreamed
    \/ GenerateNextLine
    \/ GenerateStreamEnds
    \/ UserMovesOn

SpecGenerate == InitGenerate /\ [][NextGenerate]_vars

----------------------------------------------------------------------------
(* SpecAnalyzer: analyze_screenshots called with one screenshot, one call    *)
(* after the other; the model answers each request with any of the responses *)

\* the monitor, the loop, the client and the cache file, untouched
ElsewhereIdle ==
    /\ MonitorInit
    /\ LoopIdle
    /\ foreground = [process |-> None, title |-> ""]
    /\ ClientIdle
    /\ server_models = <<>>
    /\ GenIdle

InitAnalyzer ==
    /\ ElsewhereIdle
    /\ OthersIdle

\* analyze_screenshots is called: the client is fetched, the results are empty
AnalyzerCalled ==
    /\ analysis.pc \in {"idle", "returned"}
    /\ \E r1 \in Stage1Responses, r2 \in Stage2Responses,
          rs \in [1..2 -> ReparseResponses] :
           analysis' = [pc |-> "stage1", stage1_response |-> r1,
                        stage2_response |-> r2, reparse_responses |-> rs,
                        result |-> NewResult]
    /\ UNCHANGED exceptAnalyzer

\* Stage 1 runs to the end of its try statement
AnalyzerStage1 ==
    /\ analysis.pc = "stage1"
    /\ analysis' = [analysis EXCEPT
                        !.pc = "stage2",
                        !.result = stage1(@, analysis.stage1_response)]
    /\ UNCHANGED exceptAnalyzer

\* "if stage1_result['descriptions']:" Stage 2 runs, and the call returns
AnalyzerStage2 ==
    /\ analysis.pc = "stage2"
    /\ stage2_runs(analysis.result)
    /\ analysis' = [analysis EXCEPT
                        !.pc = "returned",
                        !.result = stage2(@, analysis.stage2_response,
                                          analysis.reparse_responses)]
    /\ UNCHANGED exceptAnalyzer

\* no description: Stage 2 is skipped, and the call returns
AnalyzerSkipsStage2 ==
    /\ analysis.pc = "stage2"
    /\ ~stage2_runs(analysis.result)
    /\ analysis' = [analysis EXCEPT !.pc = "returned"]
    /\ UNCHANGED exceptAnalyzer

NextAnalyzer ==
    \/ AnalyzerCalled
    \/ AnalyzerStage1
    \/ AnalyzerStage2
    \/ AnalyzerSkipsStage2

SpecAnalyzer == InitAnalyzer /\ [][NextAnalyzer]_vars

----------------------------------------------------------------------------
(* SpecCache: one DistractionCache instance of one profile, its file, and    *)
(* the calls made on it; the program may be restarted (a new instance loads  *)
(* the file)                                                                 *)

\* the names and titles the calls are made with
CacheProcesses == {"chrome.exe", "Chrome.EXE", " chrome.exe ", "foo.exe"}
CacheTitles == {"video", " Video"}

\* two strings that differ only in letter case or leading/trailing whitespace
Variant(a, b) == lower(strip(chars(a))) = lower(strip(chars(b)))

VariantPair(p1, w1, p2, w2) == Variant(p1, p2) /\ Variant(w1, w2)

\* the pairs that differ from (p, w) only so
Variants(p, w) ==
    {a \in CacheProcesses \X CacheTitles : VariantPair(a[1], a[2], p, w)}

InitCache ==
    /\ ElsewhereIdle
    /\ OthersIdle

\* add_distracting(p, w)
CacheAddDistracting ==
    /\ \E p \in CacheProcesses, w \in CacheTitles, outcome \in SaveOutcomes :
           /\ cache' = add_distracting(cache, p, w)
           /\ cache_file' \in save(cache', cache_file, outcome)
           /\ cache_call' = [op |-> "add_distracting", process_name |-> p,
                             window_title |-> w, saved |-> outcome,
                             added |-> cache_call.added \cup Variants(p, w)]
    /\ UNCHANGED exceptCache

\* remove(p, w)
CacheRemove ==
    /\ \E p \in CacheProcesses, w \in CacheTitles, outcome \in SaveOutcomes :
           /\ cache' = remove(cache, p, w)
           /\ cache_file' \in save(cache', cache_file, outcome)
           /\ cache_call' = [op |-> "remove", process_name |-> p,
                             window_title |-> w, saved |-> outcome,
                             added |-> cache_call.added \ Variants(p, w)]
    /\ UNCHANGED exceptCache

\* clear()
CacheClear ==
    /\ \E outcome \in SaveOutcomes :
           /\ cache' = clear(cache)
           /\ cache_file' \in save(cache', cache_file, outcome)
           /\ cache_call' = [op |-> "clear", process_name |-> "",
                             window_title |-> "", saved |-> outcome, added |-> {}]
    /\ UNCHANGED exceptCache

\* DistractionCache(profile_name): a new instance takes the place of the old
\* one and loads the file
CacheNewInstance ==
    /\ cache_call.op # "none"
    /\ cache' = load(cache_file)
    /\ cache_call' = [cache_call EXCEPT !.op = "load", !.process_name = "",
                                        !.window_title = "", !.saved = "none"]
    /\ UNCHANGED <<cache_file, exceptCache>>

NextCache ==
    \/ CacheAddDistracting
    \/ CacheRemove
    \/ CacheClear
    \/ CacheNewInstance

SpecCache == InitCache /\ [][NextCache]_vars

----------------------------------------------------------------------------
(* SpecCacheFiles: the same instance and calls, started on a cache file that *)
(* exists already                                                            *)

\* a JSON document with the given [process, title] lists under 'distractions'
Document(items) == [exists |-> TRUE, whole |-> TRUE, distractions |-> items]

\* cache files that can exist when the instance is constructed: written by an
\* earlier run, holding a pair in another spelling (written by hand or by
\* another program), or not a whole JSON document
ExistingFiles ==
    {Document(<<>>),
     Document(<<list_of(normalize_key("chrome.exe", "video"))>>),
     Document(<<list_of(<<chars("Chrome.EXE"), chars(" Video")>>)>>),
     [exists |-> TRUE, whole |-> FALSE, distractions |-> <<>>]}

\* DistractionCache.__init__ on an existing file: load()
InitCacheFiles ==
    /\ MonitorInit
    /\ PageIdle
    /\ foreground = [process |-> None, title |-> ""]
    /\ ClientIdle
    /\ server_models = <<>>
    /\ GenIdle
    /\ AnalyzerIdle
    /\ ProbeIdle
    /\ ProfilesIdle
    /\ ClientsIdle
    /\ SessionIdle
    /\ cache_file \in ExistingFiles
    /\ cache = load(cache_file)
    /\ cache_call = [NoCacheCall EXCEPT !.op = "load"]

SpecCacheFiles == InitCacheFiles /\ [][NextCache]_vars

----------------------------------------------------------------------------
(* SpecProfiles: get_cache and clear_cache for several profile names, and    *)
(* the calls made on the instances get_cache returns                         *)

\* the pair the calls are made with
ProfileProcesses == {"chrome.exe"}
ProfileTitles == {"video"}

InitProfiles ==
    /\ ElsewhereIdle
    /\ OthersIdle

exceptProfiles ==
    <<now, monitorLoopVars, clientVars, genVars, analysis, fileVars, probe, clients,
      session>>

\* the instance of a profile name after a call on it that leaves the set c
\* and saves to the profile's file
profile_saved(name, c, op, outcome, file) ==
    [profiles EXCEPT !.instances[profile_key(name)] = c,
                     !.files[safe_profile_name(name)] = file,
                     !.call = [op |-> op, profile_name |-> name,
                               constructed |-> FALSE]]

\* get_cache(profile_name)
GetCache ==
    /\ \E name \in ProfileNames :
           profiles' =
               IF profile_key(name) \notin profiles.present
               THEN [profiles EXCEPT
                        !.present = @ \cup {profile_key(name)},
                        !.instances[profile_key(name)] =
                            load(profiles.files[safe_profile_name(name)]),
                        !.call = [op |-> "get_cache", profile_name |-> name,
                                  constructed |-> TRUE]]
               ELSE [profiles EXCEPT
                        !.call = [op |-> "get_cache", profile_name |-> name,
                                  constructed |-> FALSE]]
    /\ UNCHANGED exceptProfiles

\* clear_cache(profile_name)
ClearCache ==
    /\ \E name \in ProfileNames :
           profiles' = [profiles EXCEPT
                           !.present = @ \ {profile_key(name)},
                           !.instances[profile_key(name)] = {},
                           !.call = [op |-> "clear_cache", profile_name |-> name,
                                     constructed |-> FALSE]]
    /\ UNCHANGED exceptProfiles

\* get_cache(profile_name).add_distracting(p, w) on an instance that exists
ProfileAddDistracting ==
    /\ \E name \in ProfileNames, p \in ProfileProcesses, w \in ProfileTitles,
          outcome \in SaveOutcomes :
           /\ profile_key(name) \in profiles.present
           /\ LET c == add_distracting(profiles.instances[profile_key(name)], p, w)
              IN  \E file \in save(c, profiles.files[safe_profile_name(name)], outcome) :
                      profiles' = profile_saved(name, c, "add_distracting", outcome, file)
    /\ UNCHANGED exceptProfiles

\* get_cache(profile_name).remove(p, w)
ProfileRemove ==
    /\ \E name \in ProfileNames, p \in ProfileProcesses, w \in ProfileTitles,
          outcome \in SaveOutcomes :
           /\ profile_key(name) \in profiles.present
           /\ LET c == remove(profiles.instances[profile_key(name)], p, w)
              IN  \E file \in save(c, profiles.files[safe_profile_name(name)], outcome) :
                      profiles' = profile_saved(name, c, "remove", outcome, file)
    /\ UNCHANGED exceptProfiles

\* get_cache(profile_name).clear()
ProfileClear ==
    /\ \E name \in ProfileNames, outcome \in SaveOutcomes :
           /\ profile_key(name) \in profiles.present
           /\ LET c == clear(profiles.instances[profile_key(name)])
              IN  \E file \in save(c, profiles.files[safe_profile_name(name)], outcome) :
                      profiles' = profile_saved(name, c, "clear", outcome, file)
    /\ UNCHANGED exceptProfiles

NextProfiles ==
    \/ GetCache
    \/ ClearCache
    \/ ProfileAddDistracting
    \/ ProfileRemove
    \/ ProfileClear

SpecProfiles == InitProfiles /\ [][NextProfiles]_vars

----------------------------------------------------------------------------
(* SpecImages: generate_vision_multi called with a list of image paths, the  *)
(* model being available                                                     *)

\* the most images a call is given
MaxImages == 3

ImagePaths == UNION {[1..n -> ImageFiles] : n \in 0..MaxImages}

InitImages ==
    /\ ElsewhereIdle
    /\ AnalyzerIdle
    /\ FileIdle
    /\ ProfilesIdle
    /\ ClientsIdle
    /\ SessionIdle
    /\ probe \in {[NoProbe EXCEPT !.pc = "called", !.fn = "generate_vision_multi",
                                   !.list = image_paths] :
                       image_paths \in ImagePaths}

\* the images are encoded and the request is sent, or the call raises
VisionMultiEncodes ==
    /\ probe.pc = "called"
    /\ probe.fn = "generate_vision_multi"
    /\ probe' = vision_multi_images(probe)
    /\ UNCHANGED exceptProbe

NextImages == VisionMultiEncodes

SpecImages == InitImages /\ [][NextImages]_vars

----------------------------------------------------------------------------
(* SpecClassify: classify_process called on a name and a classification      *)
(* table whose lists hold strings                                            *)

\* the names classify_process is called with: a str or None
ClassifyNames == {"chrome.exe", "Chrome.EXE", "code.exe", "foo.exe", "", None}

\* what a list of the table can hold
ClassifyLists ==
    {<<>>, <<"chrome.exe">>, <<"Chrome.EXE">>, <<"code.exe", "chrome.exe">>}

ClassifyConfigs ==
    [work_processes : ClassifyLists, entertainment_processes : ClassifyLists,
     mixed_processes : ClassifyLists]

InitClassify ==
    /\ ElsewhereIdle
    /\ AnalyzerIdle
    /\ FileIdle
    /\ ProfilesIdle
    /\ ClientsIdle
    /\ SessionIdle
    /\ probe \in {[NoProbe EXCEPT !.pc = "called", !.fn = "classify_process",
                                   !.process_name = n, !.config = c] :
                       n \in ClassifyNames, c \in ClassifyConfigs}

\* the call returns
ClassifyReturns ==
    /\ probe.pc = "called"
    /\ probe.fn = "classify_process"
    /\ probe' = [probe EXCEPT
                     !.pc = "returned",
                     !.classification = classify_process(probe.process_name, probe.config)]
    /\ UNCHANGED exceptProbe

NextClassify == ClassifyReturns

SpecClassify == InitClassify /\ [][NextClassify]_vars

----------------------------------------------------------------------------
(* SpecLists: is_in_blacklist and is_in_whitelist called on a name and a     *)
(* list of strings                                                           *)

\* the names the two functions are called with: a str or None
ListNames == {"chrome.exe", "Chrome.EXE", "youtube.exe", "win.exe.bak", "", None}

\* what the user can have typed into a list
ListEntries == {"youtube", "chrome.exe", "win.bak"}

\* the most entries a list has
MaxEntries == 2

Lists == UNION {[1..n -> ListEntries] : n \in 0..MaxEntries}

InitLists ==
    /\ ElsewhereIdle
    /\ AnalyzerIdle
    /\ FileIdle
    /\ ProfilesIdle
    /\ ClientsIdle
    /\ SessionIdle
    /\ probe \in {[NoProbe EXCEPT !.pc = "called", !.fn = f,
                                   !.process_name = n, !.list = l] :
                       f \in {"is_in_blacklist", "is_in_whitelist"},
                       n \in ListNames, l \in Lists}

\* is_in_blacklist returns
BlacklistReturns ==
    /\ probe.pc = "called"
    /\ probe.fn = "is_in_blacklist"
    /\ probe' = [probe EXCEPT
                     !.pc = "returned",
                     !.listed = is_in_blacklist(probe.process_name, probe.list)]
    /\ UNCHANGED exceptProbe

\* is_in_whitelist returns
WhitelistReturns ==
    /\ probe.pc = "called"
    /\ probe.fn = "is_in_whitelist"
    /\ probe' = [probe EXCEPT
                     !.pc = "returned",
                     !.listed = is_in_whitelist(probe.process_name, probe.list)]
    /\ UNCHANGED exceptProbe

NextLists ==
    \/ BlacklistReturns
    \/ WhitelistReturns

SpecLists == InitLists /\ [][NextLists]_vars

----------------------------------------------------------------------------
(* Claims about MixedProcessMonitor, checked under SpecMonitor *)

Tracking(m) == m.current_mixed_process # None

\* the last call was update_process with a name other than last_checked_process
ProcessChanged ==
    /\ call.op = "update_process"
    /\ call.process_name # call.before.last_checked_process

\* C1: in every reachable state of a monitor, timer_start_time is set if and
\* only if current_mixed_process is set.
C1_TimerIffTracking ==
    (mixed_process_monitor.timer_start_time # NoTime)
        <=> (mixed_process_monitor.current_mixed_process # None)

\* C1 witness: a work update has just cleared a monitor that was tracking
C1_Witness ==
    /\ ProcessChanged
    /\ call.classification \in {"work", "entertainment"}
    /\ Tracking(call.before)
    /\ ~Tracking(mixed_process_monitor)

\* C4: update_process with the name it was last called with changes none of
\* the three fields, whatever the classification.
C4_SameProcessNoChange ==
    (call.op = "update_process"
        /\ call.process_name = call.before.last_checked_process)
    => mixed_process_monitor = call.before

\* C4 witness: the tracked process is observed again, a second into its dwell
\* and before expiry, and the timer still holds its start time
C4_Witness ==
    /\ call.op = "update_process"
    /\ call.process_name = call.before.last_checked_process
    /\ call.process_name = mixed_process_monitor.current_mixed_process
    /\ mixed_process_monitor.timer_start_time = now - 1
    /\ ~should_check(mixed_process_monitor, now)

\* C5: while the process first observed as mixed/unknown at observed_at stays
\* under observation (no other process, no reset), should_check() is False
\* before timeout_seconds have passed since then and True from then on; the
\* value a should_check() call returned is that one; with nothing tracked it
\* is False.
C5_ShouldCheckIffExpired ==
    /\ observed_at # NoTime =>
           (should_check(mixed_process_monitor, now)
                <=> now - observed_at >= timeout_seconds)
    /\ ~Tracking(mixed_process_monitor) => ~should_check(mixed_process_monitor, now)
    /\ (call.op = "should_check" /\ observed_at # NoTime) =>
           (call.returned <=> now - observed_at >= timeout_seconds)

\* C5 witness: should_check() has just returned True exactly timeout_seconds
\* after the first observation
C5_Witness ==
    /\ call.op = "should_check"
    /\ call.returned = TRUE
    /\ observed_at # NoTime
    /\ now - observed_at = timeout_seconds

\* C6: should_check() and get_elapsed_time() change no field; the fields change
\* only in update_process and reset; so once should_check() is True it stays
\* True until reset() or an update_process for another process.
C6_QueriesChangeNothing ==
    [][ /\ call'.op \in {"should_check", "get_elapsed_time"}
            => mixed_process_monitor' = mixed_process_monitor
        /\ mixed_process_monitor' # mixed_process_monitor
            => call'.op \in {"update_process", "reset"}
        /\ ( /\ should_check(mixed_process_monitor, now)
             /\ call'.op # "reset"
             /\ ~(call'.op = "update_process"
                    /\ call'.process_name # mixed_process_monitor.last_checked_process) )
            => should_check(mixed_process_monitor', now')
      ]_vars

\* C6 witness: should_check() returns True on a timer that had expired and been
\* reported expired before
C6_Witness ==
    /\ call.op = "should_check"
    /\ call.returned = TRUE
    /\ now - mixed_process_monitor.timer_start_time > timeout_seconds
    /\ mixed_process_monitor = call.before

\* C7: update_process for a mixed/unknown process that is neither the last
\* checked nor the tracked one tracks it and starts its clock now: its elapsed
\* time is 0.
C7_DifferentMixedRestarts ==
    ( /\ ProcessChanged
      /\ call.classification \in {"mixed", "unknown"}
      /\ call.process_name # call.before.current_mixed_process )
    => /\ mixed_process_monitor.current_mixed_process = call.process_name
       /\ mixed_process_monitor.timer_start_time = now
       /\ get_elapsed_time(mixed_process_monitor, now) = 0

\* C7 witness: another mixed/unknown process replaces one whose clock was running
C7_Witness ==
    /\ ProcessChanged
    /\ call.classification \in {"mixed", "unknown"}
    /\ Tracking(call.before)
    /\ call.before.current_mixed_process # call.process_name
    /\ call.before.timer_start_time < now
    /\ mixed_process_monitor.timer_start_time = now

\* C8 as claimed: after update_process(W, work/entertainment) should_check() is
\* False until update_process is called for a mixed/unknown process named
\* other than W.
C8_FalseUntilOtherName ==
    cleared_by # None => ~should_check(mixed_process_monitor, now)

\* the last call was update_process for a mixed/unknown process other than the
\* last checked one
StartingCall ==
    /\ ProcessChanged
    /\ call.classification \in {"mixed", "unknown"}

\* C8 amended: update_process(W, work/entertainment) with W different from
\* last_checked_process clears current_mixed_process and timer_start_time, and
\* from then on nothing is tracked and should_check() is False until
\* update_process is called for a mixed/unknown process whose name differs from
\* last_checked_process at the time of that call.
C8_FalseUntilNewProcess ==
    [][ /\ ( /\ call'.op = "update_process"
             /\ call'.process_name # mixed_process_monitor.last_checked_process
             /\ call'.classification \in {"work", "entertainment"} )
            => /\ mixed_process_monitor'.current_mixed_process = None
               /\ mixed_process_monitor'.timer_start_time = NoTime
               /\ ~should_check(mixed_process_monitor', now')
        /\ ( /\ ~Tracking(mixed_process_monitor)
             /\ ~StartingCall' )
            => /\ ~Tracking(mixed_process_monitor')
               /\ ~should_check(mixed_process_monitor', now')
      ]_vars

\* C8 witness: a work/entertainment update has just cleared an expired timer
C8_Witness ==
    /\ ProcessChanged
    /\ call.classification \in {"work", "entertainment"}
    /\ should_check(call.before, now)
    /\ ~should_check(mixed_process_monitor, now)

\* C9: reset() clears the three fields, and should_check() is True only when
\* update_process has been called for a mixed/unknown process since the last
\* reset and timeout_seconds have passed since that call.
C9_ResetNeedsFreshDwell ==
    /\ call.op = "reset" => mixed_process_monitor = NewMonitor
    /\ should_check(mixed_process_monitor, now) =>
           /\ tracked_since_reset # NoTime
           /\ now - tracked_since_reset >= timeout_seconds

\* C9 witness: should_check() returns True again after a reset that followed an
\* expiry
C9_Witness ==
    /\ reset_after_expiry
    /\ call.op = "should_check"
    /\ call.returned = TRUE

----------------------------------------------------------------------------
(* Claims about the monitoring loop, checked under Spec *)

\* C2: every poll on which should_check() returned True ends with reset()
\* called: the monitor is left cleared, whatever the screenshot capture and the
\* analysis did.
C2_ExpiryAlwaysReset ==
    tick.expired => mixed_process_monitor = NewMonitor

\* C3: an analysis is started for a process only when the polls have seen that
\* process, and no other and no unreadable window, for at least timeout_seconds
\* since they first saw it or since its last analysis.
C3_AnalysisOnlyAfterDwell ==
    tick.analysed => tick.dwelt >= timeout_seconds

\* C10: when the analysis returns a distracted verdict for the foreground
\* (process, window title) pair, the pair is in the profile's distraction cache
\* when the poll ends.
C10_DistractedVerdictCached ==
    tick.verdict = "distracted" => is_distracting(cache, tick.key[1], tick.key[2])

\* a step that runs check_current_process: the session starts, or the
\* monitoring timer fires
PollStep == (~is_monitoring /\ is_monitoring') \/ next_poll' # next_poll

\* C15: a poll that finds a blacklisted process in the foreground takes the
\* alert path: a popup is visible when it ends, one more popup is counted
\* exactly when none was visible before, and the poll ends before the
\* classification: previous_classification and the monitor are as they were,
\* also for a process that the table lists as work.
C15_BlacklistBeforeClassification ==
    [][(PollStep /\ is_in_blacklist(get_foreground_process_name(foreground), blacklist)) =>
            /\ tick'.route = "blacklist"
            /\ current_popup' = "visible"
            /\ session_popup_count' =
                   (IF is_monitoring THEN session_popup_count ELSE 0)
                   + (IF current_popup = "visible" THEN 0 ELSE 1)
            /\ previous_classification' = previous_classification
            /\ mixed_process_monitor' = mixed_process_monitor]_vars

\* a poll has found youtube.exe, blacklisted and listed as work, in the
\* foreground and has shown a popup
C15_Witness ==
    /\ tick.route = "blacklist"
    /\ tick.popup
    /\ current_popup = "visible"
    /\ previous_process_name = "youtube.exe"
    /\ is_in_blacklist(previous_process_name, blacklist)
    /\ classify_process(previous_process_name, process_classification) = "work"

\* the last poll met an exception of capture_single_screenshot or of
\* analyze_screenshots
ExceptionTick == tick.shot = "error" \/ tick.verdict = "error"

C25_PopupOnlyIfStillThere ==
    [][(PollStep /\ tick'.verdict = "distracted") =>
            LET before == IF is_monitoring THEN session_popup_count ELSE 0
                shown  == session_popup_count' # before
            IN  /\ last_analyzed_key' = tick'.key
                /\ last_analysis_result' = PyTrue
                /\ shown => FgKey(foreground') = tick'.key
                /\ FgKey(foreground') # tick'.key =>
                       /\ ~shown
                       /\ ~tick'.popup
                       /\ current_popup' = current_popup]_vars

\* a distracted verdict has arrived after the user moved on: it is recorded,
\* and no popup is shown although none was visible
C25_Witness ==
    /\ tick.verdict = "distracted"
    /\ FgKey(foreground) # tick.key
    /\ ~tick.popup
    /\ current_popup # "visible"
    /\ session_popup_count = 0
    /\ last_analyzed_key = tick.key
    /\ last_analysis_result = PyTrue

\* C26: the loop shows a popup only when none is visible: whenever
\* session_popup_count or session_distraction_count grows, no popup was
\* visible, both grow by one and a popup is visible afterwards; the two
\* counts are equal throughout, and a poll that finds a popup visible leaves
\* it and the counts as they are.
C26_NoAlertOverVisiblePopup ==
    /\ [](session_distraction_count = session_popup_count)
    /\ [][LET starts  == ~is_monitoring /\ is_monitoring'
              popups  == IF starts THEN 0 ELSE session_popup_count
              distractions == IF starts THEN 0 ELSE session_distraction_count
          IN  /\ (session_popup_count' # popups
                    \/ session_distraction_count' # distractions) =>
                     /\ PollStep
                     /\ current_popup # "visible"
                     /\ session_popup_count' = popups + 1
                     /\ session_distraction_count' = distractions + 1
                     /\ current_popup' = "visible"
              /\ (PollStep /\ current_popup = "visible") =>
                     /\ current_popup' = "visible"
                     /\ session_popup_count' = popups
                     /\ session_distraction_count' = distractions]_vars

\* a poll has found an entertainment process while the popup of an earlier
\* alert was still visible, and has shown no second one
C26_Witness ==
    /\ tick.route = "entertainment"
    /\ ~tick.popup
    /\ current_popup = "visible"
    /\ session_popup_count = 1
    /\ session_distraction_count = 1

----------------------------------------------------------------------------
(* Claims about the monitoring session, checked under SpecSession *)

\* a step of a start or stop handler leaves MainPage, the timers and the
\* records as they are
SessionUntouched ==
    /\ UNCHANGED <<now, is_monitoring, pageFields>>
    /\ session'.monitoring_timer = session.monitoring_timer
    /\ session'.session_timer = session.session_timer
    /\ session'.session_start_time = session.session_start_time
    /\ session'.started = session.started
    /\ session'.saved = session.saved

----------------------------------------------------------------------------
(* Claims about OllamaClient's model caches, checked under SpecClient *)

\* C11: a value check_model_available returns from the model cache was derived
\* from a model list read from the server at most cache_ttl seconds earlier,
\* whatever check_model_available and _resolve_model_name calls came before.
C11_CachedAvailabilityIsFresh ==
    (lookup.op = "check_model_available" /\ lookup.from_cache) =>
        now - read_at[cache_key(lookup.model_name)] <= cache_ttl

\* the resolution rule: the name itself when listed, else the first listed
\* name it is a prefix of, else the name itself
Resolution(model_name, model_names) ==
    IF \E k \in 1..Len(model_names) : model_names[k] = model_name
    THEN model_name
    ELSE IF \E k \in 1..Len(model_names) :
                startswith(chars(model_names[k]), chars(model_name))
         THEN model_names[CHOOSE k \in 1..Len(model_names) :
                  /\ startswith(chars(model_names[k]), chars(model_name))
                  /\ \A j \in 1..(k - 1) :
                         ~startswith(chars(model_names[j]), chars(model_name))]
         ELSE model_name

\* C12: every _resolve_model_name(name) call returns the resolution of name
\* against the model list the server has at the call, whatever calls preceded
\* it and whether or not their results are still cached.
C12_ResolveFollowsRule ==
    (lookup.op = "_resolve_model_name" /\ server_up) =>
        lookup.returned = Resolution(lookup.model_name, server_models)

----------------------------------------------------------------------------
(* Claims about OllamaClient's generate calls, checked under SpecGenerate *)

\* C13: in a streamed generate_text, generate_vision or generate_vision_multi
\* call that was given a cancellation predicate, the predicate has been
\* evaluated once for every line received, and once it has returned True the
\* call has closed the connection and raised InterruptedError.
C13_CancelCheckedPerChunk ==
    (gen.stream /\ gen.check_cancelled /\ gen.error # "RuntimeError") =>
        /\ gen.evaluated = gen.received
        /\ gen.told => /\ gen.pc = "raised"
                       /\ gen.error = "InterruptedError"
                       /\ gen.closed

\* C20: a generate call that is not streamed posts a second, streamed request
\* exactly when the answer's text is empty and its eval_count is above 0, never
\* a third, and returns the retried text when that is not empty.
C20_EmptyAnswerRetriedOnce ==
    (gen.pc = "returned" /\ ~gen.stream) =>
        LET empty_but_evaluated ==
                /\ gen.first.response = <<>>
                /\ get_eval_count(gen.first.eval_count) > 0
        IN  /\ gen.posts = IF empty_but_evaluated THEN 2 ELSE 1
            /\ (empty_but_evaluated /\ retry_text(gen.retried) # <<>>)
                   => gen.text = retry_text(gen.retried)

----------------------------------------------------------------------------
(* Claims about the images of generate_vision_multi, checked under SpecImages *)

\* the image at path encodes
Encodes(path) == encode_image_base64(path).raises = None

\* the encodings of the paths that encode, in the order of the paths
RECURSIVE EncodedInOrder(_)
EncodedInOrder(paths) ==
    IF paths = <<>> THEN <<>>
    ELSE IF Encodes(Head(paths))
         THEN <<encode_image_base64(Head(paths)).base64>> \o EncodedInOrder(Tail(paths))
         ELSE EncodedInOrder(Tail(paths))

\* C22: generate_vision_multi raises before its request exactly when no image
\* of image_paths encodes; otherwise it sends the request with the encodings
\* of the images that encode, in input order, the others being skipped.
C22_SendsWhatEncodes ==
    (probe.fn = "generate_vision_multi" /\ probe.pc \in {"posted", "raised"}) =>
        /\ probe.pc = "raised" <=> (\A i \in 1..Len(probe.list) : ~Encodes(probe.list[i]))
        /\ probe.pc = "posted" => probe.images = EncodedInOrder(probe.list)

----------------------------------------------------------------------------
(* Claims about analyze_screenshots, checked under SpecAnalyzer *)

\* C14: a call of analyze_screenshots that has returned holds a verdict of
\* True or False, or at least one entry in errors: never an undetermined
\* verdict with no error
C14_VerdictOrError ==
    analysis.pc = "returned" =>
        \/ analysis.result.distracted \in {PyTrue, PyFalse}
        \/ analysis.result.errors # <<>>

\* C21: in a call of analyze_screenshots the vision request of Stage 1 is the
\* first request; the text request of Stage 2 is made only when Stage 1 has
\* ended, as the request right after the vision request, and only with at
\* least one description; with no description the vision request is the
\* only one and distracted and confidence are None when the call returns.
C21_Stage2AfterStage1 ==
    LET res == analysis.result
        requested(r) == \E i \in 1..Len(res.requests) : res.requests[i] = r
    IN  /\ analysis.pc \in {"idle", "stage1"} => res.requests = <<>>
        /\ res.requests # <<>> => res.requests[1] = "vision"
        /\ \A i \in 1..Len(res.requests) :
               /\ res.requests[i] = "vision" => i = 1
               /\ res.requests[i] = "text" => i = 2
               /\ res.requests[i] = "reparse" => i > 2
        /\ requested("text") => (analysis.pc = "returned" /\ res.descriptions # <<>>)
        /\ (analysis.pc = "returned" /\ res.descriptions = <<>>) =>
               /\ res.requests = <<"vision">>
               /\ res.distracted = None
               /\ res.confidence = None

\* a call has returned after both stages: the text request followed the
\* vision request and gave a verdict
C21_Witness ==
    /\ analysis.pc = "returned"
    /\ analysis.result.descriptions # <<>>
    /\ analysis.result.requests = <<"vision", "text">>
    /\ analysis.result.distracted = PyTrue
    /\ analysis.result.confidence = "90"

\* C29: what check_model_available and _resolve_model_name return for a
\* client of base URL U is what they return when only U's clients make calls:
\* no model list fetched or cached for another base URL has a part in it.
C29_OwnModelListOnly ==
    clients.lookup.op \in {"check_model_available", "_resolve_model_name"} =>
        clients.lookup.returned = clients.lookup.alone

----------------------------------------------------------------------------
(* Claims about DistractionCache, checked under SpecCache *)

\* C16: after each add_distracting, remove or clear the cache file exists and
\* holds one whole document whose pairs are exactly the pairs in memory, and
\* an instance loaded from the file answers is_distracting as the instance
\* that was changed does.
C16_FileHoldsMemory ==
    cache_call.op \in {"add_distracting", "remove", "clear"} =>
        /\ cache_file.exists
        /\ cache_file.whole
        /\ Len(cache_file.distractions) = Cardinality(cache)
        /\ {tuple_of(cache_file.distractions[i]) :
                i \in 1..Len(cache_file.distractions)} = cache
        /\ \A p \in CacheProcesses, w \in CacheTitles :
               is_distracting(load(cache_file), p, w) = is_distracting(cache, p, w)

\* C17: after add_distracting(p, w) an instance loaded from the file answers
\* True for every pair that differs from (p, w) only in letter case or outer
\* whitespace; it answers False for every pair of which no such variant was
\* added (and not removed since); after remove(p, w) the instance and one
\* loaded from the file answer False for every variant of (p, w).
C17_RoundTrip ==
    /\ cache_call.op = "add_distracting" =>
           \A p \in CacheProcesses, w \in CacheTitles :
               VariantPair(p, w, cache_call.process_name, cache_call.window_title)
                   => is_distracting(load(cache_file), p, w)
    /\ \A p \in CacheProcesses, w \in CacheTitles :
           (\A a \in cache_call.added : ~VariantPair(p, w, a[1], a[2]))
               => ~is_distracting(load(cache_file), p, w)
    /\ cache_call.op = "remove" =>
           \A p \in CacheProcesses, w \in CacheTitles :
               VariantPair(p, w, cache_call.process_name, cache_call.window_title)
                   => /\ ~is_distracting(cache, p, w)
                      /\ ~is_distracting(load(cache_file), p, w)

\* a string that is its own lowercased, trimmed form
Normalized(t) == lower(t) = t /\ strip(t) = t

\* C27: every entry of the in-memory set is a pair of lowercased, trimmed
\* strings, after load of an existing cache file and after every
\* add_distracting, remove and clear.
C27_EntriesNormalized ==
    \A e \in cache : Len(e) = 2 /\ Normalized(e[1]) /\ Normalized(e[2])

\* what is_distracting answers for every pair on the set c
AnswersOn(c) ==
    [a \in ProfileProcesses \X ProfileTitles |-> is_distracting(c, a[1], a[2])]

\* C28: add_distracting, remove or clear on one profile's cache changes the
\* answers of is_distracting for no profile of another name, neither on that
\* profile's instance nor on an instance loaded from that profile's file; and
\* get_cache for a name it has an instance for returns that instance and
\* constructs none.
C28_ProfilesIndependent ==
    [][LET c == profiles'.call
       IN  /\ c.op \in {"add_distracting", "remove", "clear"} =>
                  \A other \in ProfileNames :
                      profile_key(other) # profile_key(c.profile_name) =>
                          /\ AnswersOn(profiles'.instances[profile_key(other)])
                                 = AnswersOn(profiles.instances[profile_key(other)])
                          /\ AnswersOn(load(profiles'.files[safe_profile_name(other)]))
                                 = AnswersOn(load(profiles.files[safe_profile_name(other)]))
           /\ (c.op = "get_cache" /\ profile_key(c.profile_name) \in profiles.present) =>
                  /\ ~c.constructed
                  /\ profiles'.present = profiles.present
                  /\ profiles'.instances = profiles.instances]_vars

----------------------------------------------------------------------------
(* Claims about classify_process, checked under SpecClassify *)

\* a name is given: neither None nor empty
Named(name) == name # None /\ name # ""

\* some entry of the list is the name, letter case aside
InList(name, l) == \E k \in 1..Len(l) : lower(chars(l[k])) = lower(chars(name))

\* C18: classify_process returns one of work, entertainment, mixed, unknown:
\* work exactly when the name is given and is in work_processes, letter case
\* aside; entertainment exactly when it is given, not in work_processes and in
\* entertainment_processes; mixed exactly when it is given and in
\* mixed_processes only; unknown exactly when it is None, empty or in no list.
C18_ClassifyByPriority ==
    (probe.fn = "classify_process" /\ probe.pc = "returned") =>
        LET name == probe.process_name
            in_work == Named(name) /\ InList(name, probe.config.work_processes)
            in_entertainment ==
                Named(name) /\ InList(name, probe.config.entertainment_processes)
            in_mixed == Named(name) /\ InList(name, probe.config.mixed_processes)
        IN  /\ probe.classification \in Classifications
            /\ probe.classification = "work" <=> in_work
            /\ probe.classification = "entertainment" <=> (~in_work /\ in_entertainment)
            /\ probe.classification = "mixed" <=>
                   (~in_work /\ ~in_entertainment /\ in_mixed)
            /\ probe.classification = "unknown" <=>
                   (~in_work /\ ~in_entertainment /\ ~in_mixed)

\* Chrome.EXE, in work_processes and in entertainment_processes in another
\* letter case, has been classified as work
C18_Witness ==
    /\ probe.fn = "classify_process"
    /\ probe.pc = "returned"
    /\ probe.process_name = "Chrome.EXE"
    /\ probe.config.work_processes = <<"code.exe", "chrome.exe">>
    /\ probe.config.entertainment_processes = <<"chrome.exe">>
    /\ probe.classification = "work"

----------------------------------------------------------------------------
(* Claims about is_in_blacklist and is_in_whitelist, checked under SpecLists *)

\* a name lowercased, its .exe suffix stripped
BaseName(s) ==
    LET l == lower(chars(s))
    IN  IF Len(l) >= 4 /\ SubSeq(l, Len(l) - 3, Len(l)) = <<".", "e", "x", "e">>
        THEN SubSeq(l, 1, Len(l) - 4)
        ELSE l

\* C19: is_in_blacklist and is_in_whitelist return True exactly when the name
\* and the list are not empty and, for some entry, the base name of the entry
\* and the base name of the process are equal or one occurs in the other.
C19_ListedIffBaseNamesMatch ==
    (probe.fn \in {"is_in_blacklist", "is_in_whitelist"} /\ probe.pc = "returned") =>
        probe.listed =
            /\ Named(probe.process_name)
            /\ probe.list # <<>>
            /\ \E k \in 1..Len(probe.list) :
                   LET e == BaseName(probe.list[k])
                       b == BaseName(probe.process_name)
                   IN  e = b \/ contains(b, e) \/ contains(e, b)

====
